---------------------------- MODULE Spec2Model ----------------------------
(***************************************************************************)
(* A model of the configuration core of symbol-bootstrap:                  *)
(*   - ConfigLoader.generateAccount       (key reuse / supply / generate)  *)
(*   - ConfigLoader.mergePresets          (lodash merge + inflation rule)  *)
(*   - ConfigLoader.applyValueTemplate / expandServicesRepeat / expandRepeat*)
(*   - ConfigLoader.createPresetData                                        *)
(*   - ConfigLoader.generateRandomConfiguration (accounts, nemesis mosaics) *)
(* Each operation is an operator translated from the TypeScript source and *)
(* is exercised by a specification of its own whose Init draws the inputs. *)
(***************************************************************************)
EXTENDS Integers, Sequences, FiniteSets, TLC

VARIABLES
    gaArgs,         \* generateAccount: the arguments of the call
    gaResult,       \* generateAccount: what the call returned or threw
    layers,         \* mergePresets: the ordered list of layers
    merged,         \* mergePresets: the returned preset
    tplContext,     \* expandServicesRepeat: the context argument
    tplServices,    \* expandServicesRepeat: the services argument
    expanded,       \* expandServicesRepeat: what the call returned
    cpParams,       \* createPresetData: params and the files it loads
    cpResult,       \* createPresetData: the returned preset
    cpRun,          \* createPresetData: the number of resolutions of the target so far
    cpBase,         \* createPresetData: what the last resolution that was given an argument returned
    resolvedPreset, \* generateRandomConfiguration: the presetData argument, as the run left it
    storedAddresses,\* generateRandomConfiguration: the oldAddresses argument
    storedPreset,   \* generateRandomConfiguration: the oldPresetData argument
    firstPreset,    \* the resolved preset the first run was given
    run,            \* number of generateRandomConfiguration runs completed
    cfgResult,      \* generateRandomConfiguration: what the last run returned or threw
    target,         \* ConfigService.run: which run wrote preset.yml and addresses.yml (0: no file)
    svcParams,      \* ConfigService.run: the params of the current run
    svcRun,         \* ConfigService.run: the number of the current run
    svcPc,          \* ConfigService.run: where the current run stands
    svcStep,        \* ConfigService.run: the position in RunSequence of the next step
    svcBefore,      \* ConfigService.run: the target folder as the current run found it
    svcWritten,     \* ConfigService.run: the files the current run has written
    svcResult,      \* ConfigService.run: what the current run returned or threw
    migFrom,        \* migrateAddresses: the document the last load migrated
    migResult,      \* migrateAddresses: what the last load returned
    migRun,         \* migrateAddresses: the number of loads so far
    votPreset,      \* VotingService.run: the voting settings of the preset
    votFiles,       \* VotingService.run: the files of the node's voting keys folder, as loadVotingFiles lists them
    votArgs,        \* VotingService.run: the arguments of the last call
    votBefore,      \* VotingService.run: the files the last call found
    votVoting,      \* VotingService.run: nodeAccount.voting
    votResult,      \* VotingService.run: what the last call returned or threw
    lnkArgs,        \* addVotingKeyLinkTransactions: the arguments as they were given
    lnkLinked,      \* addVotingKeyLinkTransactions: the array linkedVotingKeyAccounts
    lnkRemaining,   \* addVotingKeyLinkTransactions: remainingVotingKeys
    lnkAliased,     \* addVotingKeyLinkTransactions: remainingVotingKeys is still the array linkedVotingKeyAccounts
    lnkActive,      \* addVotingKeyLinkTransactions: activeVotingKeyFiles
    lnkTransactions, \* addVotingKeyLinkTransactions: transactions
    lnkPc,          \* addVotingKeyLinkTransactions: the loop the call is in
    lnkIndex,       \* addVotingKeyLinkTransactions: the position of the loop
    stoStorage,     \* LocalFileAccountStorage: this.storage
    stoFile,        \* LocalFileAccountStorage: the content of the storage file
    stoPending,     \* LocalFileAccountStorage: the calls that have not returned yet
    stoCount,       \* LocalFileAccountStorage: the number of calls made
    stoLog          \* LocalFileAccountStorage: the accounts getNodeAccount has returned, in the order of the returns

gaVars  == <<gaArgs, gaResult>>
mpVars  == <<layers, merged>>
tplVars == <<tplContext, tplServices, expanded>>
cpVars  == <<cpParams, cpResult, cpRun, cpBase>>
cfgVars == <<resolvedPreset, storedAddresses, storedPreset, firstPreset, run, cfgResult>>
svcVars == <<target, svcParams, svcRun, svcPc, svcStep, svcBefore, svcWritten, svcResult>>
migVars == <<migFrom, migResult, migRun>>
votVars == <<votPreset, votFiles, votArgs, votBefore, votVoting, votResult>>
lnkVars == <<lnkArgs, lnkLinked, lnkRemaining, lnkAliased, lnkActive, lnkTransactions, lnkPc, lnkIndex>>
stoVars == <<stoStorage, stoFile, stoPending, stoCount, stoLog>>
vars    == <<gaVars, mpVars, tplVars, cpVars, cfgVars, svcVars, migVars, votVars, lnkVars, stoVars>>

\* JavaScript's undefined, and the marker of a call that has not returned yet.
Undefined == [k |-> "undefined"]
Pending   == [k |-> "pending"]

\* A subsystem a specification does not exercise stays idle.
GaIdle  == gaArgs = Undefined /\ gaResult = Undefined
MpIdle  == layers = Undefined /\ merged = Undefined
TplIdle == tplContext = Undefined /\ tplServices = Undefined /\ expanded = Undefined
CpIdle  == cpParams = Undefined /\ cpResult = Undefined /\ cpRun = 0 /\ cpBase = Undefined
CfgIdle == /\ resolvedPreset = Undefined /\ storedAddresses = Undefined /\ storedPreset = Undefined
           /\ firstPreset = Undefined /\ run = 0 /\ cfgResult = Undefined
SvcIdle == /\ target = Undefined /\ svcParams = Undefined /\ svcRun = 0 /\ svcPc = "idle"
           /\ svcStep = 0 /\ svcBefore = Undefined /\ svcWritten = {} /\ svcResult = Undefined
MigIdle == migFrom = Undefined /\ migResult = Undefined /\ migRun = 0
VotIdle == /\ votPreset = Undefined /\ votFiles = Undefined /\ votArgs = Undefined
           /\ votBefore = Undefined /\ votVoting = Undefined /\ votResult = Undefined
LnkIdle == /\ lnkArgs = Undefined /\ lnkLinked = Undefined /\ lnkRemaining = Undefined
           /\ lnkAliased = FALSE /\ lnkActive = Undefined /\ lnkTransactions = Undefined
           /\ lnkPc = "idle" /\ lnkIndex = 0
StoIdle == stoStorage = Undefined /\ stoFile = Undefined /\ stoPending = {} /\ stoCount = 0 /\ stoLog = <<>>

\* What a call returns: a value, or a thrown error.
Returned(v) == [threw |-> FALSE, value |-> v]
Threw(e)    == [threw |-> TRUE, error |-> e]

\* The value of a singleton set: Only({e(x) : x \in {v}}) is e with x standing for the
\* value of v, computed once.
Only(S) == CHOOSE x \in S : TRUE

\* { ...a, ...b } on objects modelled as functions from field names.
Spread(a, b) ==
    [f \in (DOMAIN a) \cup (DOMAIN b) |-> IF f \in DOMAIN b THEN b[f] ELSE a[f]]

(***************************************************************************)
(* Keys and accounts.  A hex string is the key it encodes (id) and whether  *)
(* it is written in lower case.  A private key id p has the public key id   *)
(* PublicKeyOf(p); an address is made of a public key and a network type.   *)
(***************************************************************************)
MaxKey == 2         \* user-held private keys are 1..MaxKey
MaxRandom == 2      \* outcomes of a random key draw in one generateAccount call

NetworkTypes == {"MAIN_NET", "TEST_NET"}
UserKeys   == 1..MaxKey
RandomKeys == (MaxKey + 1)..(MaxKey + MaxRandom)

Hex(id, lower) == [id |-> id, lower |-> lower]
toUpperCase(h) == IF h = Undefined THEN Undefined ELSE [h EXCEPT !.lower = FALSE]
PublicKeyOf(p) == 2 * p
AddressOf(pub, networkType) == [key |-> pub, networkType |-> networkType]

\* symbol-sdk Account.createFromPrivateKey / PublicAccount.createFromPublicKey:
\* the keys of an sdk account are upper-case hex.
AccountFromPrivateKey(privateKey, networkType) ==
    [class |-> "Account",
     privateKey |-> Hex(privateKey.id, FALSE),
     publicKey |-> Hex(PublicKeyOf(privateKey.id), FALSE),
     address |-> AddressOf(PublicKeyOf(privateKey.id), networkType)]
PublicAccountFromPublicKey(publicKey, networkType) ==
    [class |-> "PublicAccount",
     publicKey |-> Hex(publicKey.id, FALSE),
     address |-> AddressOf(publicKey.id, networkType)]

KeyNames == {"Main", "Remote", "Transport", "Voting", "VRF", "Agent",
             "Nemesis Signer", "Nemesis Account"}
PrivateKeySecurityModes == {"ENCRYPT", "PROMPT_MAIN", "PROMPT_MAIN_TRANSPORT", "PROMPT_ALL"}

getAccount(networkType, publicKey, privateKey) ==
    IF privateKey # Undefined THEN AccountFromPrivateKey(privateKey, networkType)
    ELSE IF publicKey # Undefined THEN PublicAccountFromPublicKey(publicKey, networkType)
    ELSE Undefined

toConfig(account) ==
    IF account.class = "Account"
    THEN [privateKey |-> account.privateKey, publicKey |-> account.publicKey,
          address |-> account.address]
    ELSE [publicKey |-> account.publicKey, address |-> account.address]

\* oldStoredAccount?.publicKey.toUpperCase(), oldStoredAccount?.privateKey?.toUpperCase()
storedPublicKey(stored) ==
    IF stored = Undefined THEN Undefined ELSE toUpperCase(stored.publicKey)
storedPrivateKey(stored) ==
    IF stored = Undefined \/ "privateKey" \notin DOMAIN stored THEN Undefined
    ELSE toUpperCase(stored.privateKey)

\* Faulty variant: a supplied account always replaces the old one, fields and all.
reconcileBothReplace(oldAccount, newAccount) == toConfig(newAccount)
\* Both an old and a supplied account exist.
reconcileBoth(oldAccount, newAccount) ==
    IF oldAccount.address = newAccount.address
    THEN Spread(toConfig(oldAccount), toConfig(newAccount))
    ELSE toConfig(newAccount)

\* Faulty variant: only the strictest mode forbids generation, whatever the role.
generationForbiddenPromptAllOnly(keyName, privateKeySecurityMode) ==
    privateKeySecurityMode = "PROMPT_ALL"
\* "Generation validation": whether generating keyName throws under the mode.
generationForbidden(keyName, privateKeySecurityMode) ==
    IF keyName = "Main"
       /\ privateKeySecurityMode \in {"PROMPT_ALL", "PROMPT_MAIN_TRANSPORT", "PROMPT_MAIN"}
    THEN TRUE
    ELSE IF keyName = "Transport"
            /\ privateKeySecurityMode \in {"PROMPT_ALL", "PROMPT_MAIN_TRANSPORT"}
         THEN TRUE
         ELSE privateKeySecurityMode = "PROMPT_ALL"

\* Faulty variant: the security mode is validated before the decision table.
generateAccountValidateFirst(networkType, privateKeySecurityMode, keyName, oldStoredAccount, privateKey, publicKey, rnd) ==
    LET oldAccount == getAccount(networkType, storedPublicKey(oldStoredAccount),
                                 storedPrivateKey(oldStoredAccount))
        newAccount == getAccount(networkType, toUpperCase(publicKey), toUpperCase(privateKey))
    IN  IF generationForbidden(keyName, privateKeySecurityMode)
        THEN Threw("KnownError") @@ [generated |-> FALSE]
        ELSE IF oldAccount # Undefined /\ newAccount = Undefined
        THEN Returned(toConfig(oldAccount)) @@ [generated |-> FALSE]
        ELSE IF oldAccount = Undefined /\ newAccount # Undefined
        THEN Returned(toConfig(newAccount)) @@ [generated |-> FALSE]
        ELSE IF oldAccount # Undefined /\ newAccount # Undefined
        THEN Returned(reconcileBoth(oldAccount, newAccount)) @@ [generated |-> FALSE]
        ELSE Returned(toConfig(AccountFromPrivateKey(Hex(rnd, FALSE), networkType)))
                @@ [generated |-> TRUE]
\* rnd is the key Account.generateNewAccount draws, should the call reach it.
generateAccount(networkType, privateKeySecurityMode, keyName, oldStoredAccount, privateKey, publicKey, rnd) ==
    LET oldAccount == getAccount(networkType, storedPublicKey(oldStoredAccount),
                                 storedPrivateKey(oldStoredAccount))
        newAccount == getAccount(networkType, toUpperCase(publicKey), toUpperCase(privateKey))
    IN  IF oldAccount # Undefined /\ newAccount = Undefined
        THEN Returned(toConfig(oldAccount)) @@ [generated |-> FALSE]
        ELSE IF oldAccount = Undefined /\ newAccount # Undefined
        THEN Returned(toConfig(newAccount)) @@ [generated |-> FALSE]
        ELSE IF oldAccount # Undefined /\ newAccount # Undefined
        THEN Returned(reconcileBoth(oldAccount, newAccount)) @@ [generated |-> FALSE]
        ELSE IF generationForbidden(keyName, privateKeySecurityMode)
        THEN Threw("KnownError") @@ [generated |-> FALSE]
        ELSE Returned(toConfig(AccountFromPrivateKey(Hex(rnd, FALSE), networkType)))
                @@ [generated |-> TRUE]

(***************************************************************************)
(* Preset values.  A YAML/JavaScript value is tagged by its kind k:        *)
(*   "n" number, "b" boolean, "s" string, "a" array, "m" plain object,     *)
(*   "null", "undefined".                                                   *)
(* A string is kept as the sequence of its segments, each literal text     *)
(* [lit |-> ..] or a handlebars placeholder [ref |-> name] for {{name}}.    *)
(* An array is a sequence (index i of JavaScript is position i + 1), an     *)
(* object a function from its keys.                                        *)
(***************************************************************************)
Null    == [k |-> "null"]
Num(n)  == [k |-> "n", v |-> n]
Bool(b) == [k |-> "b", v |-> b]
Str(parts) == [k |-> "s", v |-> parts]
Arr(seq) == [k |-> "a", v |-> seq]
Obj(f)  == [k |-> "m", v |-> f]
Lit(text) == [lit |-> text]
Ref(name) == [ref |-> name]
Text(text) == Str(<<Lit(text)>>)
EmptyObject == Obj(<<>>)

isArray(x)  == x.k = "a"
isObject(x) == x.k \in {"a", "m"}
isString(x) == x.k = "s"
isPlainObject(x) == x.k = "m"
\* JavaScript truthiness: undefined, null, 0, false and '' are falsy.
Truthy(x) ==
    ~ \/ x.k \in {"undefined", "null"}
      \/ x = Num(0)
      \/ x = Bool(FALSE)
      \/ x = Str(<<>>)
\* object[key] of a plain object, undefined when the key is missing or the
\* receiver is not an object (optional chaining p?.key).
Get(object, key) ==
    IF isPlainObject(object) /\ key \in DOMAIN object.v THEN object.v[key] ELSE Undefined
Has(object, key) == isPlainObject(object) /\ key \in DOMAIN object.v
\* _.isEmpty: no own enumerable key (numbers, booleans, null count as empty).
isEmpty(x) ==
    IF x.k \in {"m", "a", "s"} THEN DOMAIN x.v = {} ELSE TRUE
MaxOf(a, b) == IF a >= b THEN a ELSE b

(***************************************************************************)
(* lodash _.merge: sources are merged into the destination one after the   *)
(* other; plain objects and arrays are merged recursively (arrays index by *)
(* index), any other defined value is assigned over the destination's.     *)
(***************************************************************************)
RECURSIVE mergeValue(_, _)
RECURSIVE mergeObject(_, _)
RECURSIVE mergeArray(_, _)

\* Faulty variant: a source array replaces the destination array as a whole.
mergeArrayReplace(objValue, srcValue) == srcValue
\* baseMerge over the indices of a source array.
mergeArray(objValue, srcValue) ==
    Arr([i \in 1..MaxOf(Len(objValue.v), Len(srcValue.v)) |->
            IF i > Len(srcValue.v) THEN objValue.v[i]
            ELSE IF i <= Len(objValue.v) THEN mergeValue(objValue.v[i], srcValue.v[i])
            ELSE mergeValue(Undefined, srcValue.v[i])])

\* baseMerge over the keys of a source object.
mergeObject(objValue, srcValue) ==
    Obj([key \in (DOMAIN objValue.v) \cup (DOMAIN srcValue.v) |->
            IF key \notin DOMAIN srcValue.v THEN objValue.v[key]
            ELSE IF key \in DOMAIN objValue.v THEN mergeValue(objValue.v[key], srcValue.v[key])
            ELSE mergeValue(Undefined, srcValue.v[key])])

\* What baseMerge leaves at a key holding objValue when the source holds srcValue
\* there (baseMergeDeep for arrays and plain objects, assignMergeValue otherwise).
mergeValue(objValue, srcValue) ==
    IF isArray(srcValue)
    THEN mergeArray(IF isArray(objValue) THEN objValue ELSE Arr(<<>>), srcValue)
    ELSE IF isPlainObject(srcValue)
    THEN IF isPlainObject(objValue) THEN mergeObject(objValue, srcValue)
         ELSE IF isArray(objValue)
         THEN [k |-> "a", v |-> objValue.v, props |-> srcValue.v]
         ELSE mergeObject(EmptyObject, srcValue)
    ELSE IF srcValue = Undefined THEN objValue
    ELSE srcValue

\* _.merge(object, ...sources): undefined sources are skipped.
RECURSIVE merge(_, _)
merge(object, sources) ==
    IF sources = <<>> THEN object
    ELSE merge(IF Head(sources) = Undefined THEN object
               ELSE mergeObject(object, Head(sources)),
               Tail(sources))

\* presets.reverse().find((p) => p?.inflation)?.inflation || {}
RECURSIVE findLastInflation(_)
findLastInflation(presets) ==
    IF presets = <<>> THEN EmptyObject
    ELSE LET last == presets[Len(presets)]
         IN  IF Truthy(Get(last, "inflation")) THEN Get(last, "inflation")
             ELSE findLastInflation(SubSeq(presets, 1, Len(presets) - 1))

\* Faulty variant: the inflation of the layers is deep-merged like any other key.
mergePresetsNoInflationRule(presets) == merge(EmptyObject, presets)
\* ConfigLoader.mergePresets(object, ...otherArgs) with presets = [object, ...otherArgs].
mergePresets(presets) ==
    LET inflation == findLastInflation(presets)
        mergedData == merge(EmptyObject, presets)
    IN  IF ~isEmpty(inflation)
        THEN Obj(Spread(mergedData.v, [inflation |-> inflation]))
        ELSE mergedData


(***************************************************************************)
(* Templates.  BootstrapUtils.runTemplate renders a string against a       *)
(* context: each placeholder is replaced by the text of the context value  *)
(* it names; a placeholder the context does not resolve is an error.       *)
(***************************************************************************)
TemplateError == [k |-> "error"]
\* The source text of a string value.
RECURSIVE rawText(_)
rawText(parts) ==
    IF parts = <<>> THEN ""
    ELSE (IF "lit" \in DOMAIN Head(parts) THEN Head(parts).lit
          ELSE "{{" \o Head(parts).ref \o "}}") \o rawText(Tail(parts))
\* The text a context value renders to.
stringify(x) ==
    IF x.k = "n" THEN ToString(x.v)
    ELSE IF x.k = "b" THEN (IF x.v THEN "true" ELSE "false")
    ELSE IF x.k = "s" THEN rawText(x.v)
    ELSE IF x.k = "a" THEN "[array]"
    ELSE "[object Object]"
resolves(part, context) ==
    "lit" \in DOMAIN part
    \/ (part.ref \in DOMAIN context /\ context[part.ref].k \notin {"undefined", "null"})
RECURSIVE render(_, _)
render(parts, context) ==
    IF parts = <<>> THEN ""
    ELSE (IF "lit" \in DOMAIN Head(parts) THEN Head(parts).lit
          ELSE stringify(context[Head(parts).ref])) \o render(Tail(parts), context)
runTemplate(value, context) ==
    IF \E i \in 1..Len(value.v) : ~resolves(value.v[i], context) THEN TemplateError
    ELSE LET text == render(value.v, context)
         IN  IF text = "" THEN Str(<<>>) ELSE Text(text)

\* Faulty variant: copies are numbered from 1.
rangeFromOne(n) == [i \in 1..n |-> i]
\* _.range(n): 0, 1, .., n - 1 (0, -1, .., n + 1 for a negative n).
range(n) == IF n >= 0 THEN [i \in 1..n |-> i - 1] ELSE [i \in 1..(0 - n) |-> 1 - i]

\* The own enumerable properties of an object or array ({...service}, _.mapValues).
properties(x) ==
    IF isArray(x)
    THEN [key \in {ToString(i - 1) : i \in 1..Len(x.v)} |->
             x.v[CHOOSE i \in 1..Len(x.v) : ToString(i - 1) = key]]
    ELSE x.v
\* _.omit(object, 'repeat')
omit(fields, key) == [f \in (DOMAIN fields) \ {key} |-> fields[f]]

\* Faulty variant: an entry without repeat is dropped like one with repeat 0.
repeatCountAbsentIsZero(service) ==
    LET repeat == IF "repeat" \in DOMAIN properties(service)
                  THEN properties(service)["repeat"] ELSE Undefined
    IN  IF Truthy(repeat) /\ repeat.k = "n" THEN repeat.v ELSE 0
\* repeat || 1, for a repeat that is a number or missing.
repeatCount(service) ==
    LET repeat == IF "repeat" \in DOMAIN properties(service)
                  THEN properties(service)["repeat"] ELSE Undefined
    IN  IF Truthy(repeat) /\ repeat.k = "n" THEN repeat.v ELSE 1

RECURSIVE applyValueTemplate(_, _)
RECURSIVE expandServicesRepeat(_, _)

\* One copy of a service: every field expanded with the service's own fields and
\* $index in the context, then the repeat key removed.
expandCopy(context, service, index) ==
    LET ctx == Spread(Spread(context, properties(service)), ("$index" :> Num(index)))
    IN  Obj(omit([key \in DOMAIN properties(service) |->
                     applyValueTemplate(ctx, properties(service)[key])],
                 "repeat"))

\* The callback of _.flatMap for one service.
expandService(context, service) ==
    IF ~isObject(service) THEN <<service>>
    ELSE IF "repeat" \in DOMAIN properties(service) /\ properties(service)["repeat"] = Num(0)
    THEN <<>>
    ELSE LET indexes == range(repeatCount(service))
         IN  [i \in 1..Len(indexes) |-> expandCopy(context, service, indexes[i])]

\* ConfigLoader.expandServicesRepeat(context, services), context and services as
\* the fields of the context object and the elements of the array.
expandServicesRepeat(context, services) ==
    IF services = <<>> THEN <<>>
    ELSE expandService(context, Head(services)) \o expandServicesRepeat(context, Tail(services))

\* ConfigLoader.applyValueTemplate(context, value)
applyValueTemplate(context, value) ==
    IF ~Truthy(value) THEN value
    ELSE IF isArray(value) THEN Arr(expandServicesRepeat(context, value.v))
    ELSE IF isObject(value)
    THEN Obj([key \in DOMAIN value.v |->
                 applyValueTemplate(Spread(context, value.v), value.v[key])])
    ELSE IF ~isString(value) THEN value
    ELSE runTemplate(value, context)

(***************************************************************************)
(* createPresetData.  root is the installation folder: the bundled shared, *)
(* network and assembly presets and the yml files a path may name.  A      *)
(* preset or assembly name is a string value; its text is its file name.   *)
(***************************************************************************)
\* a || b
Or(a, b) == IF Truthy(a) THEN a ELSE b
nameText(name) == rawText(name.v)
YmlFileNames == {"custom-network.yml", "custom-assembly.yml", "custom-preset.yml",
                 "missing.yml"}
\* BootstrapUtils.isYmlFile: the name ends in .yml
isYmlFile(name) == nameText(name) \in YmlFileNames
existsSync(root, path) == nameText(path) \in DOMAIN root.files

loadCustomPreset(root, customPreset) ==
    IF ~Truthy(customPreset) THEN Returned(EmptyObject)
    ELSE IF ~existsSync(root, customPreset) THEN Threw("KnownError")
    ELSE Returned(root.files[nameText(customPreset)])

loadAssembly(root, preset, assembly) ==
    IF isYmlFile(assembly)
    THEN IF ~existsSync(root, assembly) THEN Threw("KnownError")
         ELSE Returned(root.files[nameText(assembly)])
    ELSE IF nameText(assembly) \in DOMAIN root.assemblies
         THEN Returned(root.assemblies[nameText(assembly)])
         ELSE Threw("KnownError")

loadNetworkPreset(root, preset) ==
    IF isYmlFile(preset)
    THEN IF ~existsSync(root, preset) THEN Threw("KnownError")
         ELSE Returned(root.files[nameText(preset)])
    ELSE IF nameText(preset) \notin DOMAIN root.networks THEN Threw("KnownError")
         ELSE Returned(root.networks[nameText(preset)])

loadSharedPreset(root) == root.shared

getDefaultConfiguration(node) ==
    IF Truthy(Get(node, "harvesting")) /\ Truthy(Get(node, "api"))
    THEN [syncsource |-> Bool(TRUE), filespooling |-> Bool(TRUE),
          partialtransaction |-> Bool(TRUE), addressextraction |-> Bool(TRUE),
          mongo |-> Bool(TRUE), zeromq |-> Bool(TRUE), enableAutoSyncCleanup |-> Bool(FALSE)]
    ELSE IF Truthy(Get(node, "api"))
    THEN [syncsource |-> Bool(FALSE), filespooling |-> Bool(TRUE),
          partialtransaction |-> Bool(TRUE), addressextraction |-> Bool(TRUE),
          mongo |-> Bool(TRUE), zeromq |-> Bool(TRUE), enableAutoSyncCleanup |-> Bool(FALSE)]
    ELSE [syncsource |-> Bool(TRUE), filespooling |-> Bool(FALSE),
          partialtransaction |-> Bool(FALSE), addressextraction |-> Bool(FALSE),
          mongo |-> Bool(FALSE), zeromq |-> Bool(FALSE), enableAutoSyncCleanup |-> Bool(TRUE)]

\* The elements _.map / _.flatMap iterate: those of an array, none of a missing
\* or scalar value.
elements(collection) == IF isArray(collection) THEN collection.v ELSE <<>>

dynamicDefaultNodeConfiguration(nodes) ==
    LET list == elements(Or(nodes, Arr(<<>>)))
    IN  [i \in 1..Len(list) |->
            Obj(Spread(getDefaultConfiguration(list[i]),
                       IF isObject(list[i]) THEN properties(list[i]) ELSE <<>>))]

ServiceCollections == {"databases", "nodes", "gateways", "explorers", "wallets", "faucets"}

\* Faulty variant: the faucets are left as the layers give them.
expandRepeatKeepFaucets(preset) ==
    Obj(Spread(preset.v,
        [key \in (ServiceCollections \ {"faucets"}) \cup {"nemesis"} |->
            IF key = "nemesis" THEN applyValueTemplate(preset.v, Get(preset, "nemesis"))
            ELSE Arr(expandServicesRepeat(preset.v,
                                          elements(Or(Get(preset, key), Arr(<<>>)))))]))
\* ConfigLoader.expandRepeat(presetData)
expandRepeat(preset) ==
    Obj(Spread(preset.v,
        [key \in ServiceCollections \cup {"nemesis"} |->
            IF key = "nemesis" THEN applyValueTemplate(preset.v, Get(preset, "nemesis"))
            ELSE Arr(expandServicesRepeat(preset.v,
                                          elements(Or(Get(preset, key), Arr(<<>>)))))]))

\* Whether rendering some string of the value failed.
RECURSIVE hasTemplateError(_)
hasTemplateError(x) ==
    IF x = TemplateError THEN TRUE
    ELSE IF isArray(x) THEN \E i \in 1..Len(x.v) : hasTemplateError(x.v[i])
    ELSE IF isPlainObject(x) THEN \E key \in DOMAIN x.v : hasTemplateError(x.v[key])
    ELSE FALSE

\* The resolved names and layers of createPresetData, up to the first merge.
resolvePresetName(params, customPresetFileObject) ==
    Or(params.preset,
       Or(Get(params.customPresetObject, "preset"),
          Or(Get(customPresetFileObject, "preset"), Get(params.oldPresetData, "preset"))))
\* Faulty variant: the custom preset's declared assembly wins over the parameter.
resolveAssemblyNameCustomFirst(params, customPresetFileObject) ==
    Or(Get(params.customPresetObject, "assembly"),
       Or(Get(customPresetFileObject, "assembly"),
          Or(params.assembly,
             Or(Get(params.oldPresetData, "assembly"), Text("dual")))))
resolveAssemblyName(params, customPresetFileObject) ==
    Or(params.assembly,
       Or(Get(params.customPresetObject, "assembly"),
          Or(Get(customPresetFileObject, "assembly"),
             Or(Get(params.oldPresetData, "assembly"), Text("dual")))))
\* Faulty variant: the custom preset cache of the previous preset is not looked at.
resolveCustomPresetNoCache(params, customPresetFileObject) ==
    mergePresets(<<customPresetFileObject, params.customPresetObject>>)
resolveCustomPreset(params, customPresetFileObject) ==
    LET providedCustomPreset == mergePresets(<<customPresetFileObject, params.customPresetObject>>)
    IN  IF isEmpty(providedCustomPreset)
        THEN Or(Get(params.oldPresetData, "customPresetCache"), EmptyObject)
        ELSE providedCustomPreset

\* ConfigLoader.createPresetData(params)
createPresetData(params) ==
    LET customFile == loadCustomPreset(params.root, params.customPreset)
    IN  IF customFile.threw THEN customFile
        ELSE
        LET customPresetFileObject == customFile.value
            preset == resolvePresetName(params, customPresetFileObject)
            assembly == resolveAssemblyName(params, customPresetFileObject)
        IN  IF ~Truthy(preset) THEN Threw("KnownError")
            ELSE
            LET sharedPreset == loadSharedPreset(params.root)
                networkPreset == loadNetworkPreset(params.root, preset)
                assemblyPreset == loadAssembly(params.root, preset, assembly)
            IN  IF networkPreset.threw THEN networkPreset
                ELSE IF assemblyPreset.threw THEN assemblyPreset
                ELSE
                LET resolvedCustomPreset == resolveCustomPreset(params, customPresetFileObject)
                    mergedPreset == mergePresets(<<sharedPreset, networkPreset.value,
                                                   assemblyPreset.value, resolvedCustomPreset>>)
                    presetDataWithDynamicDefaults ==
                        Obj(Spread(mergedPreset.v,
                            [version |-> Num(1),
                             preset |-> preset,
                             assembly |-> Or(assembly, Str(<<>>)),
                             nodes |-> Arr(dynamicDefaultNodeConfiguration(Get(mergedPreset, "nodes"))),
                             customPresetCache |-> resolvedCustomPreset]))
                    result == expandRepeat(presetDataWithDynamicDefaults)
                IN  IF hasTemplateError(result) THEN Threw("KnownError")
                    ELSE Returned(result)

(***************************************************************************)
(* generateRandomConfiguration.  A resolved preset, a node preset, an       *)
(* addresses document are functions from the names of the fields they       *)
(* carry; an absent field is undefined.  Every random draw of a run is one  *)
(* slot of the run's seed, so two draws never give the same key.            *)
(***************************************************************************)
MaxNodes == 2       \* nodes of a resolved preset
MaxMosaics == 2     \* mosaics of a nemesis
MaxAccounts == 2    \* free accounts of a mosaic
MaxSupply == 3      \* supply of a mosaic

has(object, field) == object # Undefined /\ field \in DOMAIN object
prop(object, field) == IF has(object, field) THEN object[field] ELSE Undefined
\* object.field = value
assign(object, field, value) == Spread(object, (field :> value))
\* object.field = value where value may be undefined (an undefined field is absent)
assignIfDefined(object, field, value) ==
    IF value = Undefined THEN object ELSE assign(object, field, value)

\* The slots of the random draws of one run.
HashSeedSlot == 0
SinkSlot == 1
SignerSlot == 2
NodeRoles == <<"main", "transport", "remote", "vrf", "agent">>
NodeSlot(index, role) ==
    3 + index * Len(NodeRoles) + (CHOOSE r \in 1..Len(NodeRoles) : NodeRoles[r] = role) - 1
FreeAccountSlot(mosaicIndex, account) ==
    3 + MaxNodes * Len(NodeRoles) + mosaicIndex * MaxAccounts + account
SlotsPerRun == 3 + MaxNodes * Len(NodeRoles) + MaxMosaics * MaxAccounts
\* The private key a seed gives at a slot: never a key a user holds.
Fresh(seed, slot) == MaxKey + (seed - 1) * SlotsPerRun + slot + 1

KeyNameOf(role) ==
    CASE role = "main" -> "Main" [] role = "transport" -> "Transport"
      [] role = "remote" -> "Remote" [] role = "vrf" -> "VRF" [] role = "agent" -> "Agent"

resolveRoles(nodePreset) ==
    IF has(nodePreset, "roles") THEN nodePreset.roles
    ELSE [join |-> (IF prop(nodePreset, "syncsource") = Bool(TRUE) THEN <<"Peer">> ELSE <<>>)
                   \o (IF prop(nodePreset, "api") = Bool(TRUE) THEN <<"Api">> ELSE <<>>)
                   \o (IF prop(nodePreset, "voting") = Bool(TRUE) THEN <<"Voting">> ELSE <<>>)]

\* Faulty variant: a remote account for every node once remote accounts are in use.
nodeRolesOfRemoteForAll(presetData, nodePreset) ==
    LET useRemoteAccount == \/ prop(nodePreset, "nodeUseRemoteAccount") = Bool(TRUE)
                            \/ prop(presetData, "nodeUseRemoteAccount") = Bool(TRUE)
    IN  <<"main", "transport">>
        \o (IF useRemoteAccount THEN <<"remote">> ELSE <<>>)
        \o (IF prop(nodePreset, "harvesting") = Bool(TRUE) THEN <<"vrf">> ELSE <<>>)
        \o (IF prop(nodePreset, "rewardProgram") = Bool(TRUE) THEN <<"agent">> ELSE <<>>)
\* Which accounts generateNodeAccount makes for a node, in the order it makes them.
nodeRolesOf(presetData, nodePreset) ==
    LET useRemoteAccount == \/ prop(nodePreset, "nodeUseRemoteAccount") = Bool(TRUE)
                            \/ prop(presetData, "nodeUseRemoteAccount") = Bool(TRUE)
        harvesting == prop(nodePreset, "harvesting") = Bool(TRUE)
        voting == prop(nodePreset, "voting") = Bool(TRUE)
    IN  <<"main", "transport">>
        \o (IF useRemoteAccount /\ (harvesting \/ voting) THEN <<"remote">> ELSE <<>>)
        \o (IF harvesting THEN <<"vrf">> ELSE <<>>)
        \o (IF prop(nodePreset, "rewardProgram") = Bool(TRUE) THEN <<"agent">> ELSE <<>>)

\* The account of one role of a node.
generateNodeRoleAccount(oldNodeAccount, presetData, index, nodePreset, networkType, role, seed) ==
    generateAccount(networkType, presetData.privateKeySecurityMode, KeyNameOf(role),
                    prop(oldNodeAccount, role),
                    prop(nodePreset, role \o "PrivateKey"),
                    prop(nodePreset, role \o "PublicKey"),
                    Fresh(seed, NodeSlot(index, role)))

\* The node account made of the accounts of its roles, or the first error among them.
nodeAccountOf(presetData, index, nodePreset, made) ==
    LET roles == nodeRolesOf(presetData, nodePreset)
    IN  IF \E r \in 1..Len(roles) : made[r].threw THEN Threw("KnownError")
        ELSE Returned(
                [f \in {"name", "friendlyName", "roles"} \cup {roles[r] : r \in 1..Len(roles)} |->
                    IF f = "name"
                    THEN IF has(nodePreset, "name") THEN nodePreset.name
                         ELSE [text |-> "node-", index |-> index]
                    ELSE IF f = "friendlyName"
                    THEN IF has(nodePreset, "friendlyName") THEN nodePreset.friendlyName
                         ELSE [substr |-> made[1].value.publicKey]
                    ELSE IF f = "roles" THEN resolveRoles(nodePreset)
                    ELSE made[CHOOSE r \in 1..Len(roles) : roles[r] = f].value])
             @@ [generated |-> {NodeSlot(index, roles[r]) :
                                    r \in {q \in 1..Len(roles) : made[q].generated}}]

\* Faulty variant: the previous run's node account is not looked at.
generateNodeAccountIgnoreOld(oldNodeAccount, presetData, index, nodePreset, networkType, seed) ==
    Only({nodeAccountOf(presetData, index, nodePreset, made) :
            made \in {[r \in 1..Len(nodeRolesOf(presetData, nodePreset)) |->
                        generateNodeRoleAccount(Undefined, presetData, index, nodePreset,
                            networkType, nodeRolesOf(presetData, nodePreset)[r], seed)]}})
generateNodeAccount(oldNodeAccount, presetData, index, nodePreset, networkType, seed) ==
    Only({nodeAccountOf(presetData, index, nodePreset, made) :
            made \in {[r \in 1..Len(nodeRolesOf(presetData, nodePreset)) |->
                        generateNodeRoleAccount(oldNodeAccount, presetData, index, nodePreset,
                            networkType, nodeRolesOf(presetData, nodePreset)[r], seed)]}})

\* presetData.nodes.map(...): index is the JavaScript index of the node.
generateNodeAccounts(oldAddresses, presetData, networkType, seed) ==
    Only({IF \E i \in 1..Len(made) : made[i].threw THEN Threw("KnownError")
          ELSE Returned([i \in 1..Len(made) |-> made[i].value])
               @@ [generated |-> UNION {made[i].generated : i \in 1..Len(made)}] :
            made \in {[i \in 1..Len(presetData.nodes) |->
                        generateNodeAccount(
                            IF has(oldAddresses, "nodes") /\ i <= Len(oldAddresses.nodes)
                            THEN oldAddresses.nodes[i] ELSE Undefined,
                            presetData, i - 1, presetData.nodes[i], networkType, seed)]}})

\* getAddressesMigration(networkType).length + 1: there is one migration.
AddressesVersion == 2

\* Convert.uint8ToHex(Crypto.randomBytes(32))
randomBytes(seed) == [bytes |-> Fresh(seed, HashSeedSlot)]
\* Account.generateNewAccount(networkType)
generateNewAccount(networkType, key) == AccountFromPrivateKey(Hex(key, FALSE), networkType)
\* MosaicId.createFromNonce(MosaicNonce.createFromNumber(nonce), ownerAddress).toHex()
createFromNonce(nonce, ownerAddress) == [nonce |-> nonce, owner |-> ownerAddress]
\* CommandUtils.resolvePrivateKey: the stored private key, else the one the user types in.
resolvePrivateKey(account) ==
    IF has(account, "privateKey") THEN account.privateKey ELSE [prompted |-> account.publicKey]

shouldCreateNemesis(root, presetData) ==
    /\ has(presetData, "nemesis")
    /\ ~has(presetData, "nemesisSeedFolder")
    /\ (presetData.preset \in YmlFileNames \/ presetData.preset \notin root.seeds)

\* generateAddresses(networkType, privateKeySecurityMode, accounts) for a number of accounts.
generateAddresses(networkType, accounts, mosaicIndex, seed) ==
    [a \in 1..accounts |->
        toConfig(generateNewAccount(networkType, Fresh(seed, FreeAccountSlot(mosaicIndex, a - 1))))]
\* generateAddresses(networkType, privateKeySecurityMode, accounts) for a list of private keys.
addressesOfKeys(networkType, keys) ==
    [a \in 1..Len(keys) |-> toConfig(AccountFromPrivateKey(keys[a], networkType))]
\* this.generateAddresses(networkType, privateKeySecurityMode, m.accounts || 1): m.accounts is
\* a number, held in the field accounts, or a list of private keys, held in the field
\* accountKeys (a list, even an empty one, is truthy)
freeAccounts(m, networkType, mosaicIndex, seed) ==
    IF has(m, "accountKeys") THEN addressesOfKeys(networkType, m.accountKeys)
    ELSE generateAddresses(networkType,
            IF has(m, "accounts") /\ m.accounts # 0 THEN m.accounts ELSE 1, mosaicIndex, seed)

\* The amounts of a distribution, or the error of sum() on a negative amount.
RECURSIVE sumAmounts(_)
sumAmounts(distribution) ==
    IF distribution = <<>> THEN 0
    ELSE distribution[1].amount + sumAmounts(Tail(distribution))
\* sum's error message: the mosaic, and the address, the amount and the JavaScript
\* index of the first negative entry
negativeBalance(m, distribution) ==
    LET i == CHOOSE i \in 1..Len(distribution) :
                /\ distribution[i].amount < 0
                /\ \A j \in 1..(i - 1) : distribution[j].amount >= 0
    IN  [mosaic |-> m.name, address |-> distribution[i].address,
         amount |-> distribution[i].amount, index |-> i - 1]
\* Faulty variant: the sum of the amounts, negative ones included.
sumUnchecked(m, distribution) == Returned(sumAmounts(distribution))
sum(m, distribution) ==
    IF \E i \in 1..Len(distribution) : distribution[i].amount < 0
    THEN Threw("Error") @@ [message |-> negativeBalance(m, distribution)]
    ELSE Returned(sumAmounts(distribution))

\* Number.MAX_SAFE_INTEGER is 2^53 - 1; it only serves as a cap above every amount, and
\* the largest integer of the model serves alike.
MAX_SAFE_INTEGER == 2147483647
min(a, b) == IF a < b THEN a ELSE b
slice1(list) == IF list = <<>> THEN <<>> ELSE Tail(list)
\* Faulty variant: no entry is filtered out.
positiveKeepAll(list) == list
\* list.filter((d) => d.amount > 0)
RECURSIVE positive(_)
positive(list) ==
    IF list = <<>> THEN <<>>
    ELSE (IF list[1].amount > 0 THEN <<list[1]>> ELSE <<>>) \o positive(Tail(list))

\* getBalance(nodeIndex) !== undefined, for the node at position n of presetData.nodes
hasBalance(presetData, mosaicIndex, n) ==
    /\ has(presetData, "nodes")
    /\ has(presetData.nodes[n], "balances")
    /\ mosaicIndex + 1 <= Len(presetData.nodes[n].balances)
\* The distributions pushed for the first n nodes: one per node with a balance.
RECURSIVE nodeBalances(_, _, _, _)
nodeBalances(presetData, nodeAccounts, mosaicIndex, n) ==
    IF n = 0 THEN <<>>
    ELSE nodeBalances(presetData, nodeAccounts, mosaicIndex, n - 1)
         \o (IF hasBalance(presetData, mosaicIndex, n)
             THEN <<[address |-> nodeAccounts[n].main.address,
                     amount |-> presetData.nodes[n].balances[mosaicIndex + 1]]>>
             ELSE <<>>)
\* Of the first n nodes, those without a balance.
RECURSIVE nodeMains(_, _, _, _)
nodeMains(presetData, nodeAccounts, mosaicIndex, n) ==
    IF n = 0 THEN <<>>
    ELSE nodeMains(presetData, nodeAccounts, mosaicIndex, n - 1)
         \o (IF hasBalance(presetData, mosaicIndex, n) THEN <<>> ELSE <<nodeAccounts[n]>>)

\* The amounts of a mosaic, from the free accounts, the dynamic node accounts and the
\* provided distributions: the mosaic with its final currencyDistributions, or the error.
distribute(m, accounts, nodeMainAccounts, providedDistributions, maxHarvesterBalance) ==
    IF sum(m, providedDistributions).threw THEN sum(m, providedDistributions)
    ELSE
    LET providedSupply == sumAmounts(providedDistributions)
        remainingSupply == m.supply - providedSupply
        dynamicAccounts == Len(accounts) + Len(nodeMainAccounts)
        \* without a dynamic account the quotient is infinite or NaN, and nothing uses it
        amountPerAccount ==
            IF dynamicAccounts = 0 THEN 0 ELSE remainingSupply \div dynamicAccounts
        generatedAccounts ==
            [a \in 1..Len(accounts) |->
                [address |-> accounts[a].address, amount |-> amountPerAccount]]
            \o [n \in 1..Len(nodeMainAccounts) |->
                [address |-> nodeMainAccounts[n].main.address,
                 amount |-> min(maxHarvesterBalance, amountPerAccount)]]
        currencyDistributions == positive(generatedAccounts \o providedDistributions)
    IN  IF sum(m, slice1(generatedAccounts)).threw THEN sum(m, slice1(generatedAccounts))
        ELSE IF currencyDistributions = <<>> THEN Threw("TypeError")
        ELSE
        LET generatedSupply == sumAmounts(slice1(generatedAccounts))
            corrected ==
                [currencyDistributions EXCEPT
                    ![1].amount = m.supply - providedSupply - generatedSupply]
        IN  IF sum(m, corrected).threw THEN sum(m, corrected)
            ELSE IF m.supply # sumAmounts(corrected) THEN Threw("Error")
            ELSE Returned(assign(m, "currencyDistributions", corrected))

\* The body of presetData.nemesis.mosaics.forEach((m, mosaicIndex) => ...): the mosaic with
\* its final currencyDistributions and the mosaic's entry of addresses.mosaics, or the error
\* with the index of the mosaic whose iteration threw it.
distributeMosaic(presetData, nodeAccounts, m, mosaicIndex, networkType, nemesisSignerAddress, seed) ==
    Only({IF distributed.threw THEN distributed @@ [mosaicIndex |-> mosaicIndex]
          ELSE Returned([mosaic |-> distributed.value,
                         accounts |-> [id |-> createFromNonce(mosaicIndex, nemesisSignerAddress),
                                       name |-> m.name, accounts |-> accounts]]) :
            accounts \in {freeAccounts(m, networkType, mosaicIndex, seed)},
            distributed \in
                {distribute(m,
                    freeAccounts(m, networkType, mosaicIndex, seed),
                    nodeMains(presetData, nodeAccounts, mosaicIndex, Len(nodeAccounts)),
                    (IF has(m, "currencyDistributions") THEN m.currencyDistributions ELSE <<>>)
                        \o nodeBalances(presetData, nodeAccounts, mosaicIndex, Len(nodeAccounts)),
                    IF \/ (Len(presetData.nemesis.mosaics) = 1 /\ mosaicIndex = 0)
                       \/ (Len(presetData.nemesis.mosaics) > 1 /\ mosaicIndex = 1)
                    THEN presetData.maxHarvesterBalance
                    ELSE MAX_SAFE_INTEGER)}})

\* The fresh branch: every mosaic in declaration order, stopping at the first error.
distributeMosaics(presetData, nodeAccounts, networkType, nemesisSignerAddress, seed) ==
    Only({IF \E i \in 1..Len(done) : done[i].threw
          THEN done[CHOOSE i \in 1..Len(done) :
                        done[i].threw /\ \A j \in 1..(i - 1) : ~done[j].threw]
          ELSE Returned([mosaics |-> [i \in 1..Len(done) |-> done[i].value.mosaic],
                         accounts |-> [i \in 1..Len(done) |-> done[i].value.accounts]])
               @@ [generated |->
                      UNION {{FreeAccountSlot(i - 1, a - 1) :
                                  a \in 1..Len(done[i].value.accounts.accounts)} :
                             i \in {q \in 1..Len(done) :
                                       ~has(presetData.nemesis.mosaics[q], "accountKeys")}}] :
            done \in {[i \in 1..Len(presetData.nemesis.mosaics) |->
                        distributeMosaic(presetData, nodeAccounts, presetData.nemesis.mosaics[i],
                                         i - 1, networkType, nemesisSignerAddress, seed)]}})

\* delete object.field
unset(object, field) == [f \in (DOMAIN object) \ {field} |-> object[f]]
\* object.field = value, for a value that may be undefined
assignOrUnset(object, field, value) ==
    IF value = Undefined THEN unset(object, field) ELSE assign(object, field, value)

SinkFields == <<"harvestNetworkFeeSinkAddress", "mosaicRentalFeeSinkAddress",
                "namespaceRentalFeeSinkAddress">>
\* if (!presetData[field]) presetData[field] = getDefaultSyncAddress(), for the three fields
RECURSIVE defaultSinkAddresses(_, _, _)
defaultSinkAddresses(presetData, sinkAddress, n) ==
    IF n = 0 THEN presetData
    ELSE LET before == defaultSinkAddresses(presetData, sinkAddress, n - 1)
         IN  IF has(before, SinkFields[n]) THEN before
             ELSE assign(before, SinkFields[n], sinkAddress)

\* Faulty variant: an upgrade keeps the nemesis section of the newly resolved preset.
reuseNemesisKeepNew(addresses, presetData, oldAddresses, oldPresetData) ==
    [addresses |-> IF has(oldAddresses, "mosaics")
                   THEN assign(addresses, "mosaics", oldAddresses.mosaics) ELSE addresses,
     presetData |-> presetData]
\* "Nemesis configuration cannot be changed on upgrade."
reuseNemesis(addresses, presetData, oldAddresses, oldPresetData) ==
    [addresses |-> IF has(oldAddresses, "mosaics")
                   THEN assign(addresses, "mosaics", oldAddresses.mosaics) ELSE addresses,
     presetData |-> assignOrUnset(presetData, "nemesis", prop(oldPresetData, "nemesis"))]

\* What a run that returns leaves: the addresses, the preset it changed in place,
\* and the slots at which it drew a random value.
Generated(addresses, presetData, generated) ==
    [threw |-> FALSE, value |-> addresses, presetData |-> presetData, generated |-> generated]

\* The addresses document as first built: version, network type, hash seed, sink address.
initialAddresses(oldAddresses, presetData, seed) ==
    assignIfDefined(
        [version |-> AddressesVersion,
         networkType |-> presetData.networkType,
         nemesisGenerationHashSeed |->
            IF has(presetData, "nemesisGenerationHashSeed")
            THEN presetData.nemesisGenerationHashSeed
            ELSE IF has(oldAddresses, "nemesisGenerationHashSeed")
            THEN oldAddresses.nemesisGenerationHashSeed
            ELSE randomBytes(seed)],
        "sinkAddress",
        IF has(presetData, "sinkAddress") THEN presetData.sinkAddress
        ELSE prop(oldAddresses, "sinkAddress"))
seedDrawn(oldAddresses, presetData) ==
    /\ ~has(presetData, "nemesisGenerationHashSeed")
    /\ ~has(oldAddresses, "nemesisGenerationHashSeed")
\* getDefaultSyncAddress is called and finds no sink address.
sinkDrawn(addresses, presetData) ==
    /\ \E n \in 1..Len(SinkFields) : ~has(presetData, SinkFields[n])
    /\ ~has(addresses, "sinkAddress")
\* The preset after the sink addresses, the network names and the hash seed are set.
withNetworkDefaults(addresses, presetData) ==
    LET sinks == defaultSinkAddresses(presetData, prop(addresses, "sinkAddress"),
                                      Len(SinkFields))
        named == Spread(sinks, [networkIdentifier |-> [identifierOf |-> presetData.networkType],
                                networkName |-> [nameOf |-> presetData.networkType]])
    IN  IF has(named, "nemesisGenerationHashSeed") THEN named
        ELSE assign(named, "nemesisGenerationHashSeed", addresses.nemesisGenerationHashSeed)

\* From if (shouldCreateNemesis) { ... } of the mosaics to the return: the upgrade branch,
\* the fresh distribution, or neither.
resolveMosaics(root, oldAddresses, oldPresetData, presetData, seed, addresses, drawn, nemesisSignerAddress) ==
    IF ~shouldCreateNemesis(root, presetData) THEN Generated(addresses, presetData, drawn)
    ELSE IF oldAddresses # Undefined
    THEN IF oldPresetData = Undefined THEN Threw("Error")
         ELSE Only({Generated(reused.addresses, reused.presetData, drawn) :
                    reused \in {reuseNemesis(addresses, presetData, oldAddresses,
                                             oldPresetData)}})
    ELSE IF ~has(presetData.nemesis, "mosaics") THEN Generated(addresses, presetData, drawn)
    ELSE Only({IF distributed.threw THEN distributed
               ELSE Generated(assign(addresses, "mosaics", distributed.value.accounts),
                              [presetData EXCEPT !.nemesis =
                                  assign(@, "mosaics", distributed.value.mosaics)],
                              drawn \cup distributed.generated) :
                distributed \in
                    {distributeMosaics(presetData,
                        IF has(addresses, "nodes") THEN addresses.nodes ELSE <<>>,
                        presetData.networkType, nemesisSignerAddress, seed)}})

\* From the nemesis signer address to the return: the mosaic ids, then the mosaics.
resolveMosaicIds(root, oldAddresses, oldPresetData, presetData, seed, addresses, drawn) ==
    IF ~has(presetData, "nemesisSignerPublicKey") THEN Threw("TypeError")
    ELSE IF ~has(presetData, "harvestingMosaicId") /\ ~has(presetData, "nemesis")
    THEN Threw("Error")
    ELSE
    Only({resolveMosaics(root, oldAddresses, oldPresetData, withIds, seed, addresses, drawn,
                         nemesisSignerAddress) :
            nemesisSignerAddress \in
                {AddressOf(presetData.nemesisSignerPublicKey.id, presetData.networkType)},
            withIds \in
                {LET nemesisSignerAddress ==
                        AddressOf(presetData.nemesisSignerPublicKey.id, presetData.networkType)
                     currency == IF has(presetData, "currencyMosaicId") THEN presetData
                                 ELSE assign(presetData, "currencyMosaicId",
                                             createFromNonce(0, nemesisSignerAddress))
                 IN  IF has(currency, "harvestingMosaicId") THEN currency
                     ELSE assign(currency, "harvestingMosaicId",
                            IF /\ has(currency.nemesis, "mosaics")
                               /\ Len(currency.nemesis.mosaics) > 1
                            THEN createFromNonce(1, nemesisSignerAddress)
                            ELSE currency.currencyMosaicId)}})

\* From if (shouldCreateNemesis) { addresses.nemesisSigner = ... } to the return.
resolveNemesisSigner(root, oldAddresses, oldPresetData, presetData, seed, addresses, drawn) ==
    IF ~shouldCreateNemesis(root, presetData)
    THEN resolveMosaicIds(root, oldAddresses, oldPresetData, presetData, seed, addresses, drawn)
    ELSE
    Only({IF signer.threw THEN Threw("KnownError")
          ELSE Only({resolveMosaicIds(root, oldAddresses, oldPresetData, signed, seed,
                                      withSigner, allDrawn) :
                      signed \in
                        {[assign(presetData, "nemesisSignerPublicKey", signer.value.publicKey)
                            EXCEPT !.nemesis = assign(@, "nemesisSignerPrivateKey",
                                                      resolvePrivateKey(signer.value))]},
                      withSigner \in {assign(addresses, "nemesisSigner", signer.value)},
                      allDrawn \in
                        {drawn \cup (IF signer.generated THEN {SignerSlot} ELSE {})}}) :
            signer \in
                {generateAccount(presetData.networkType, presetData.privateKeySecurityMode,
                                 "Nemesis Signer",
                                 prop(oldAddresses, "nemesisSigner"),
                                 prop(presetData.nemesis, "nemesisSignerPrivateKey"),
                                 prop(presetData, "nemesisSignerPublicKey"),
                                 Fresh(seed, SignerSlot))}})

\* From the node accounts to the return: the sink address and the network defaults.
resolveSinkAddress(root, oldAddresses, oldPresetData, presetData, seed, addresses, nodes) ==
    IF nodes.threw THEN Threw("KnownError")
    ELSE
    Only({Only({resolveNemesisSigner(root, oldAddresses, oldPresetData, defaulted, seed,
                                     withSink, drawn) :
                  defaulted \in {withNetworkDefaults(withSink, presetData)}}) :
            withSink \in
                {LET withNodes == IF has(presetData, "nodes")
                                  THEN assign(addresses, "nodes", nodes.value) ELSE addresses
                 IN  IF sinkDrawn(addresses, presetData)
                     THEN assign(withNodes, "sinkAddress",
                                 generateNewAccount(presetData.networkType,
                                                    Fresh(seed, SinkSlot)).address)
                     ELSE withNodes},
            drawn \in
                {(IF seedDrawn(oldAddresses, presetData) THEN {HashSeedSlot} ELSE {})
                 \cup nodes.generated
                 \cup (IF sinkDrawn(addresses, presetData) THEN {SinkSlot} ELSE {})}})

generateRandomConfiguration(root, oldAddresses, oldPresetData, presetData, seed) ==
    IF ~has(presetData, "networkType") THEN Threw("Error")
    ELSE
    Only({resolveSinkAddress(root, oldAddresses, oldPresetData, presetData, seed, addresses,
                             nodes) :
            addresses \in {initialAddresses(oldAddresses, presetData, seed)},
            nodes \in
                {IF has(presetData, "nodes")
                 THEN generateNodeAccounts(oldAddresses, presetData, presetData.networkType, seed)
                 ELSE Returned(<<>>) @@ [generated |-> {}]}})

(***************************************************************************)
(* The migration of a stored addresses document.  BootstrapUtils.migrate   *)
(* is not part of the sources at hand: it is modelled as documented, every  *)
(* migration of the list applied in order to the loaded document.           *)
(***************************************************************************)
\* Faulty variant: the legacy ssl key is preferred to the legacy signing account.
\* a stored account with the private key k
StoredAccount(k) == toConfig(AccountFromPrivateKey(Hex(k, FALSE), "TEST_NET"))

migrateNodeSslFirst(nodeAddresses, networkType, rnd) ==
    Only({unset(unset(unset(assign(withMain, "transport", transport.value), "node"),
                      "signing"), "ssl") :
            withMain \in
                {IF has(nodeAddresses, "ssl")
                 THEN assign(nodeAddresses, "main",
                        toConfig(AccountFromPrivateKey(nodeAddresses.ssl.privateKey, networkType)))
                 ELSE IF has(nodeAddresses, "signing")
                 THEN assign(nodeAddresses, "main", nodeAddresses.signing)
                 ELSE nodeAddresses},
            transport \in
                {generateAccount(networkType, "ENCRYPT", "Transport", Undefined,
                                 prop(prop(nodeAddresses, "node"), "privateKey"), Undefined, rnd)}})
\* The callback of (from.nodes || []).forEach in the key names migration.
migrateNode(nodeAddresses, networkType, rnd) ==
    Only({unset(unset(unset(assign(withMain, "transport", transport.value), "node"),
                      "signing"), "ssl") :
            withMain \in
                {IF has(nodeAddresses, "signing")
                 THEN assign(nodeAddresses, "main", nodeAddresses.signing)
                 ELSE IF has(nodeAddresses, "ssl")
                 THEN assign(nodeAddresses, "main",
                        toConfig(AccountFromPrivateKey(nodeAddresses.ssl.privateKey, networkType)))
                 ELSE nodeAddresses},
            transport \in
                {generateAccount(networkType, "ENCRYPT", "Transport", Undefined,
                                 prop(prop(nodeAddresses, "node"), "privateKey"), Undefined, rnd)}})

\* migrate(from) of the 'Key names migration'
keyNamesMigration(from, networkType, seed) ==
    IF has(from, "nodes")
    THEN assign(from, "nodes",
            [i \in 1..Len(from.nodes) |->
                migrateNode(from.nodes[i], networkType, Fresh(seed, NodeSlot(i - 1, "transport")))])
    ELSE from

\* the descriptions of the migrations, in their order
getAddressesMigration == <<"Key names migration">>

\* BootstrapUtils.migrate('addresses.yml', addresses, migrations)
RECURSIVE migrate(_, _, _, _)
migrate(document, migrations, networkType, seed) ==
    IF migrations = <<>> THEN document
    ELSE migrate(IF Head(migrations) = "Key names migration"
                 THEN keyNamesMigration(document, networkType, seed) ELSE document,
                 Tail(migrations), networkType, seed)

migrateAddresses(addresses, networkType, seed) ==
    migrate(addresses, getAddressesMigration, networkType, seed)

(***************************************************************************)
(* ConfigService.run and the loaders of the generated files.  The target   *)
(* folder is a function from file name to the number of the run that wrote *)
(* the file, 0 when the file does not exist.                               *)
(***************************************************************************)
PresetFile    == "preset.yml"
AddressesFile == "addresses.yml"
TargetFiles   == {PresetFile, AddressesFile}
EmptyTarget   == [file \in TargetFiles |-> 0]

\* an exception of class errorClass whose message names the file
ThrewNaming(errorClass, file) == [threw |-> TRUE, error |-> errorClass, names |-> file]

getGeneratedPresetLocation  == PresetFile
getGeneratedAddressLocation == AddressesFile

loadExistingPresetDataIfPreset(folder) ==
    IF folder[getGeneratedPresetLocation] # 0 THEN folder[getGeneratedPresetLocation] ELSE 0

loadExistingPresetData(folder) ==
    IF loadExistingPresetDataIfPreset(folder) = 0
    THEN ThrewNaming("Error", getGeneratedPresetLocation)
    ELSE Returned(loadExistingPresetDataIfPreset(folder))

\* the addresses are migrated with the network type of the stored preset, so
\* the stored preset is loaded first and its absence is an Error
loadExistingAddressesIfPreset(folder) ==
    IF folder[getGeneratedAddressLocation] # 0
    THEN IF loadExistingPresetData(folder).threw
         THEN loadExistingPresetData(folder)
         ELSE Returned(folder[getGeneratedAddressLocation])
    ELSE Returned(0)

loadExistingAddresses(folder) ==
    IF loadExistingAddressesIfPreset(folder).threw
    THEN loadExistingAddressesIfPreset(folder)
    ELSE IF loadExistingAddressesIfPreset(folder).value = 0
         THEN ThrewNaming("Error", getGeneratedAddressLocation)
         ELSE loadExistingAddressesIfPreset(folder)

\* the addresses.yml the run with the given number wrote: the current format, the
\* accounts of one node
writtenAddresses(r) ==
    [version |-> AddressesVersion, networkType |-> "TEST_NET", nemesisGenerationHashSeed |-> r,
     nodes |-> <<[main |-> StoredAccount(1), transport |-> StoredAccount(2)]>>]

\* run() from its first line to the first of: the return of the stored
\* configuration, a throw, the call of resolveCurrentPresetData
loadOld(folder, params, seed) ==
    LET found == IF params.reset THEN EmptyTarget ELSE folder
    IN  IF found[PresetFile] # 0 /\ ~params.upgrade
        THEN IF loadExistingAddresses(found).threw
             THEN [folder |-> found, pc |-> "failed", result |-> loadExistingAddresses(found)]
             ELSE [folder |-> found, pc |-> "returned",
                   result |-> Returned([presetData |-> loadExistingPresetData(found).value,
                                        addresses  |->
                                            migrateAddresses(
                                                writtenAddresses(loadExistingAddresses(found).value),
                                                "TEST_NET", seed)])]
        ELSE IF loadExistingAddressesIfPreset(found).threw
             THEN [folder |-> found, pc |-> "failed", result |-> loadExistingAddressesIfPreset(found)]
             ELSE IF loadExistingAddressesIfPreset(found).value # 0
                     /\ loadExistingPresetDataIfPreset(found) = 0
                  THEN [folder |-> found, pc |-> "failed",
                        result |-> ThrewNaming("KnownError", PresetFile)]
                  ELSE IF loadExistingAddressesIfPreset(found).value = 0
                          /\ loadExistingPresetDataIfPreset(found) # 0
                       THEN [folder |-> found, pc |-> "failed",
                             result |-> ThrewNaming("KnownError", AddressesFile)]
                       ELSE [folder |-> found, pc |-> "running", result |-> Pending]

\* the steps of run() with the two files written as soon as the accounts exist
RunSequenceWriteEarly ==
    <<"resolveCurrentPresetData", "generateRandomConfiguration", "writeAddresses", "writePreset",
      "mkdir", "cleanUpConfiguration",
      "generateNodeCertificates", "generateAgentCertificates", "generateNodes", "generateGateways",
      "generateExplorers", "generateWallets", "resolveNemesis", "report">>

\* the awaited steps of run() after the old files are loaded, in order
RunSequence ==
    <<"resolveCurrentPresetData", "generateRandomConfiguration", "mkdir", "cleanUpConfiguration",
      "generateNodeCertificates", "generateAgentCertificates", "generateNodes", "generateGateways",
      "generateExplorers", "generateWallets", "resolveNemesis", "report",
      "writeAddresses", "writePreset">>

\* the file a step writes with writeYaml, "" for the steps that write neither
writes(step) ==
    IF step = "writeAddresses" THEN getGeneratedAddressLocation
    ELSE IF step = "writePreset" THEN getGeneratedPresetLocation
    ELSE ""

\* what a step can throw: the checks of the configuration raise KnownError,
\* the file system and the libraries raise Error
ErrorClasses == {"KnownError", "Error"}

\* writeYaml checks nothing of the configuration: it fails as the file system fails
throws(step) == IF writes(step) # "" THEN {"Error"} ELSE ErrorClasses

(***************************************************************************)
(* VotingService.run.  The voting keys folder is the list of its files as  *)
(* loadVotingFiles gives them, each with its epochs and the number in its   *)
(* name; createVotingFile adds the file it is asked for, which comes after  *)
(* every file there is.                                                     *)
(***************************************************************************)
Max(a, b) == IF a >= b THEN a ELSE b

\* currentVotingFiles[currentVotingFiles.length - 1]?.endEpoch || 0
lastEndEpoch(currentVotingFiles) ==
    IF currentVotingFiles = <<>> THEN 0 ELSE currentVotingFiles[Len(currentVotingFiles)].endEpoch

\* provider.createVotingFile and the folder it leaves
createVotingFile(currentVotingFiles, votingKeyStartEpoch, votingKeyEndEpoch) ==
    Append(currentVotingFiles,
           [startEpoch |-> votingKeyStartEpoch, endEpoch |-> votingKeyEndEpoch,
            filename |-> Len(currentVotingFiles) + 1])

\* Faulty variant: the new file starts at the network epoch, whatever files there are.
votingRunFromNetworkEpoch(presetData, nodePreset, currentNetworkEpoch, updateVotingKey, currentVotingFiles) ==
    Only({
        IF ~nodePreset.voting
        THEN [threw |-> FALSE, value |-> FALSE, why |-> "not voting", files |-> currentVotingFiles]
        ELSE IF presetData.votingKeyDesiredFutureLifetime > presetData.votingKeyDesiredLifetime
        THEN [threw |-> TRUE, error |-> "Error", files |-> currentVotingFiles]
        ELSE IF maxVotingKeyEndEpoch > networkEpoch + presetData.votingKeyDesiredFutureLifetime
        THEN [threw |-> FALSE, value |-> FALSE, why |-> "up to date", files |-> currentVotingFiles,
              voting |-> currentVotingFiles]
        ELSE IF ~update /\ Len(currentVotingFiles) > 0
        THEN [threw |-> FALSE, value |-> FALSE, why |-> "expiring", files |-> currentVotingFiles,
              voting |-> currentVotingFiles]
        ELSE Only({[threw |-> FALSE, value |-> TRUE, why |-> "created", files |-> files,
                    voting |-> files] :
                    files \in {createVotingFile(currentVotingFiles, networkEpoch,
                                   networkEpoch - 1 + presetData.votingKeyDesiredLifetime)}}) :
        networkEpoch \in
            {IF currentNetworkEpoch # 0 THEN currentNetworkEpoch
             ELSE IF presetData.lastKnownNetworkEpoch # 0 THEN presetData.lastKnownNetworkEpoch
             ELSE 1},
        update \in
            {IF updateVotingKey = "undefined" THEN presetData.autoUpdateVotingKeys
             ELSE updateVotingKey = "true"},
        maxVotingKeyEndEpoch \in
            {Max(lastEndEpoch(currentVotingFiles),
                 (IF currentNetworkEpoch # 0 THEN currentNetworkEpoch
                  ELSE IF presetData.lastKnownNetworkEpoch # 0
                       THEN presetData.lastKnownNetworkEpoch ELSE 1) - 1)}})

\* VotingService.run: what it returns or throws, the folder it leaves (files) and,
\* when it is assigned, nodeAccount.voting.  An epoch of 0 stands for one that is
\* not given.
votingRun(presetData, nodePreset, currentNetworkEpoch, updateVotingKey, currentVotingFiles) ==
    Only({
        IF ~nodePreset.voting
        THEN [threw |-> FALSE, value |-> FALSE, why |-> "not voting", files |-> currentVotingFiles]
        ELSE IF presetData.votingKeyDesiredFutureLifetime > presetData.votingKeyDesiredLifetime
        THEN [threw |-> TRUE, error |-> "Error", files |-> currentVotingFiles]
        ELSE IF maxVotingKeyEndEpoch > networkEpoch + presetData.votingKeyDesiredFutureLifetime
        THEN [threw |-> FALSE, value |-> FALSE, why |-> "up to date", files |-> currentVotingFiles,
              voting |-> currentVotingFiles]
        ELSE IF ~update /\ Len(currentVotingFiles) > 0
        THEN [threw |-> FALSE, value |-> FALSE, why |-> "expiring", files |-> currentVotingFiles,
              voting |-> currentVotingFiles]
        ELSE Only({[threw |-> FALSE, value |-> TRUE, why |-> "created", files |-> files,
                    voting |-> files] :
                    files \in {createVotingFile(currentVotingFiles, maxVotingKeyEndEpoch + 1,
                                   maxVotingKeyEndEpoch + presetData.votingKeyDesiredLifetime)}}) :
        networkEpoch \in
            {IF currentNetworkEpoch # 0 THEN currentNetworkEpoch
             ELSE IF presetData.lastKnownNetworkEpoch # 0 THEN presetData.lastKnownNetworkEpoch
             ELSE 1},
        update \in
            {IF updateVotingKey = "undefined" THEN presetData.autoUpdateVotingKeys
             ELSE updateVotingKey = "true"},
        maxVotingKeyEndEpoch \in
            {Max(lastEndEpoch(currentVotingFiles),
                 (IF currentNetworkEpoch # 0 THEN currentNetworkEpoch
                  ELSE IF presetData.lastKnownNetworkEpoch # 0
                       THEN presetData.lastKnownNetworkEpoch ELSE 1) - 1)}})

(***************************************************************************)
(* LinkTransactionGenericFactory.addVotingKeyLinkTransactions.  A voting   *)
(* key account carries the identity of its object (ref), compared by !=,   *)
(* next to its public key and its epochs.                                  *)
(***************************************************************************)
overlapsVotingAccounts(x, y) == x.endEpoch >= y.startEpoch /\ x.startEpoch <= y.endEpoch

\* remainingVotingKeys.filter((a) => a != alreadyLinkedAccount)
filterOut(remainingVotingKeys, alreadyLinkedAccount) ==
    SelectSeq(remainingVotingKeys, LAMBDA a : a.ref # alreadyLinkedAccount.ref)

\* remainingVotingKeys.find((a) => overlapsVotingAccounts(accountTobeLinked, a)): the
\* position of the first such key, 0 when there is none
findOverlapping(remainingVotingKeys, accountTobeLinked) ==
    IF \E k \in 1..Len(remainingVotingKeys) :
            overlapsVotingAccounts(accountTobeLinked, remainingVotingKeys[k])
    THEN CHOOSE k \in 1..Len(remainingVotingKeys) :
            /\ overlapsVotingAccounts(accountTobeLinked, remainingVotingKeys[k])
            /\ \A l \in 1..(k - 1) :
                  ~overlapsVotingAccounts(accountTobeLinked, remainingVotingKeys[l])
    ELSE 0

isAlreadyLinkedSameAccount(remainingVotingKeys, accountTobeLinked) ==
    \E k \in {findOverlapping(remainingVotingKeys, accountTobeLinked)} \ {0} :
        /\ toUpperCase(remainingVotingKeys[k].publicKey) = toUpperCase(accountTobeLinked.publicKey)
        /\ remainingVotingKeys[k].startEpoch = accountTobeLinked.startEpoch
        /\ remainingVotingKeys[k].endEpoch = accountTobeLinked.endEpoch

Transaction(account, action) == [account |-> account, action |-> action]

\* the first loop's body for one linked account: the keys that remain, the
\* transactions that are pushed and whether remainingVotingKeys was replaced
unlinkExpired(remainingVotingKeys, alreadyLinkedAccount, lastKnownNetworkEpoch, confirmUnlink) ==
    IF alreadyLinkedAccount.endEpoch < lastKnownNetworkEpoch /\ confirmUnlink
    THEN [remaining |-> filterOut(remainingVotingKeys, alreadyLinkedAccount),
          pushed |-> <<Transaction(alreadyLinkedAccount, "Unlink")>>, replaced |-> TRUE]
    ELSE [remaining |-> remainingVotingKeys, pushed |-> <<>>, replaced |-> FALSE]

\* lines 148-155 of the second loop's body
linkIfRoom(unlinked, accountTobeLinked, addTransaction) ==
    IF Len(unlinked.remaining) < 3 /\ addTransaction
    THEN [remaining |-> Append(unlinked.remaining, accountTobeLinked),
          pushed |-> Append(unlinked.pushed, Transaction(accountTobeLinked, "Link")),
          replaced |-> unlinked.replaced, linked |-> TRUE]
    ELSE unlinked @@ [linked |-> FALSE]

\* Faulty variant: the new key is linked whatever the number of the linked keys.
linkVotingKeyFileNoLimit(remainingVotingKeys, accountTobeLinked, confirmUnlink) ==
    Only({IF k # 0 /\ ~same
          THEN IF confirmUnlink
               THEN [remaining |-> Append(filterOut(remainingVotingKeys, remainingVotingKeys[k]),
                                          accountTobeLinked),
                     pushed |-> <<Transaction(remainingVotingKeys[k], "Unlink"),
                                  Transaction(accountTobeLinked, "Link")>>,
                     replaced |-> TRUE, linked |-> TRUE]
               ELSE [remaining |-> remainingVotingKeys, pushed |-> <<>>, replaced |-> FALSE,
                     linked |-> FALSE]
          ELSE IF ~same
               THEN [remaining |-> Append(remainingVotingKeys, accountTobeLinked),
                     pushed |-> <<Transaction(accountTobeLinked, "Link")>>,
                     replaced |-> FALSE, linked |-> TRUE]
               ELSE [remaining |-> remainingVotingKeys, pushed |-> <<>>, replaced |-> FALSE,
                     linked |-> FALSE] :
            k \in {findOverlapping(remainingVotingKeys, accountTobeLinked)},
            same \in {isAlreadyLinkedSameAccount(remainingVotingKeys, accountTobeLinked)}})

\* the second loop's body for one active voting key file
linkVotingKeyFile(remainingVotingKeys, accountTobeLinked, confirmUnlink) ==
    Only({IF k # 0 /\ ~same
          THEN IF confirmUnlink
               THEN linkIfRoom([remaining |-> filterOut(remainingVotingKeys, remainingVotingKeys[k]),
                                pushed |-> <<Transaction(remainingVotingKeys[k], "Unlink")>>,
                                replaced |-> TRUE],
                               accountTobeLinked, ~same)
               ELSE linkIfRoom([remaining |-> remainingVotingKeys, pushed |-> <<>>,
                                replaced |-> FALSE],
                               accountTobeLinked, FALSE)
          ELSE linkIfRoom([remaining |-> remainingVotingKeys, pushed |-> <<>>, replaced |-> FALSE],
                          accountTobeLinked, ~same) :
            k \in {findOverlapping(remainingVotingKeys, accountTobeLinked)},
            same \in {isAlreadyLinkedSameAccount(remainingVotingKeys, accountTobeLinked)}})

(***************************************************************************)
(* LocalFileAccountStorage.  The store holds, for every name it knows, the *)
(* stored account, Undefined for a name it does not hold.  writeYaml is     *)
(* not among the sources at hand: save() is taken to write the store as it  *)
(* is when save() is called, the file being replaced when the write ends.   *)
(***************************************************************************)
toStored(account) ==
    [privateKey |-> account.privateKey, publicKey |-> account.publicKey,
     address |-> account.address]

nodeKeyOf(number) == <<"node", number>>

\* Faulty variant: the stored account is not looked up.
getNodeAccountAlwaysNew(storage, networkType, keyName, number, key) ==
    Only({[storage |-> [storage EXCEPT !.nodes[nodeKeyOf(number)][keyName] = toStored(account)],
           account |-> account] :
            account \in {AccountFromPrivateKey(
                            toStored(generateNewAccount(networkType, key)).privateKey,
                            networkType)}})

\* getNodeAccount up to its await: the store it leaves and the account it will return;
\* key is the private key Account.generateNewAccount draws when it is called
getNodeAccount(storage, networkType, keyName, number, key) ==
    Only({[storage |-> [storage EXCEPT !.nodes[nodeKeyOf(number)][keyName] = toStored(account)],
           account |-> account] :
            account \in {AccountFromPrivateKey(
                            (IF storage.nodes[nodeKeyOf(number)][keyName] # Undefined
                             THEN storage.nodes[nodeKeyOf(number)][keyName]
                             ELSE toStored(generateNewAccount(networkType, key))).privateKey,
                            networkType)}})

\* getNetworkAccount up to its await
getNetworkAccount(storage, networkType, accountName, key) ==
    Only({[storage |-> [storage EXCEPT !.network[accountName] = toStored(account)],
           account |-> account] :
            account \in {AccountFromPrivateKey(
                            (IF storage.network[accountName] # Undefined
                             THEN storage.network[accountName]
                             ELSE toStored(generateNewAccount(networkType, key))).privateKey,
                            networkType)}})

\* saveNetworkAccount up to its await
saveNetworkAccount(storage, networkType, accountName, privateKey) ==
    [storage EXCEPT !.network[accountName] =
        toStored(AccountFromPrivateKey(privateKey, networkType))]

\* the name a voting key file is stored under
votingFileKey(number, startEpoch, endEpoch) == <<"node", number, startEpoch, endEpoch>>

(***************************************************************************)
(* Specification of generateAccount: any arguments, one call.              *)
(***************************************************************************)
\* An account as a previous run stored it: sdk-normalised keys, the private key
\* kept or stripped.
StoredAccounts ==
    UNION {{toConfig(AccountFromPrivateKey(Hex(p, FALSE), n)),
            toConfig(PublicAccountFromPublicKey(Hex(PublicKeyOf(p), FALSE), n))} :
           <<p, n>> \in UserKeys \X NetworkTypes}
SuppliedPrivateKeys == {Hex(p, l) : <<p, l>> \in UserKeys \X BOOLEAN}
SuppliedPublicKeys  == {Hex(PublicKeyOf(p), l) : <<p, l>> \in UserKeys \X BOOLEAN}

GaInit ==
    /\ gaArgs \in [networkType : {"TEST_NET"},
                   privateKeySecurityMode : PrivateKeySecurityModes,
                   keyName : KeyNames,
                   oldStoredAccount : {Undefined} \cup {a \in StoredAccounts : a.address.networkType = "TEST_NET"},
                   privateKey : {Undefined} \cup SuppliedPrivateKeys,
                   publicKey : {Undefined} \cup SuppliedPublicKeys]
    /\ gaResult = Pending
    /\ MpIdle /\ TplIdle /\ CpIdle /\ CfgIdle /\ SvcIdle /\ MigIdle /\ VotIdle /\ LnkIdle /\ StoIdle

GenerateAccount ==
    /\ gaResult = Pending
    /\ \E rnd \in RandomKeys :
          gaResult' = generateAccount(gaArgs.networkType, gaArgs.privateKeySecurityMode,
                                      gaArgs.keyName, gaArgs.oldStoredAccount,
                                      gaArgs.privateKey, gaArgs.publicKey, rnd)
    /\ UNCHANGED <<gaArgs, mpVars, tplVars, cpVars, cfgVars, svcVars, migVars, votVars, lnkVars, stoVars>>

GaNext == GenerateAccount
SpecAccount == GaInit /\ [][GaNext]_vars

(***************************************************************************)
(* Specification of mergePresets: any list of layers, one call.            *)
(***************************************************************************)
MaxLayers == 2      \* longest list of layers handed to mergePresets
MaxLen == 2         \* longest array a layer holds

InflationKeys == {"starting-at-height-2", "starting-at-height-200"}
InflationAmounts == {Num(95), Num(91)}
InflationMaps == UNION {[S -> InflationAmounts] : S \in SUBSET InflationKeys}
ArrayElements == {Num(7), Obj([name |-> Text("node")]), Obj([port |-> Num(7900)])}
Arrays == UNION {[1..n -> ArrayElements] : n \in 0..MaxLen}
FlatObjects == {Obj([host |-> Text("a")]), Obj([port |-> Num(1)]), Obj([host |-> Text("b")])}

\* Layers that say something about inflation, about an array, about an object and
\* a scalar; a layer may also be undefined (no custom preset).
InflationLayers == {EmptyObject} \cup {Obj([inflation |-> Obj(m)]) : m \in InflationMaps}
ArrayLayers == {Obj([nodes |-> Arr(a)]) : a \in Arrays} \cup {Obj([nodes |-> Num(0)])}
ObjectLayers ==
    {Obj([o |-> o]) : o \in FlatObjects \cup {Num(3)}}
    \cup {Obj([x |-> x]) : x \in {Num(1), Num(2), Null}}
    \cup {Obj([o |-> o, x |-> Num(1)]) : o \in FlatObjects}
PresetLayers == {Undefined} \cup InflationLayers \cup ArrayLayers \cup ObjectLayers

MpInit ==
    /\ layers \in UNION {[1..n -> PresetLayers] : n \in 1..MaxLayers}
    /\ merged = Pending
    /\ GaIdle /\ TplIdle /\ CpIdle /\ CfgIdle /\ SvcIdle /\ MigIdle /\ VotIdle /\ LnkIdle /\ StoIdle

MergePresets ==
    /\ merged = Pending
    /\ merged' = mergePresets(layers)
    /\ UNCHANGED <<layers, gaVars, tplVars, cpVars, cfgVars, svcVars, migVars, votVars, lnkVars, stoVars>>

MpNext == MergePresets
SpecMerge == MpInit /\ [][MpNext]_vars

(***************************************************************************)
(* Specification of expandServicesRepeat: any services list, one call.     *)
(***************************************************************************)
MaxServices == 2    \* longest services list
MaxRepeat == 2      \* largest repeat of a service

IndexedName == Str(<<Lit("node-"), Ref("$index")>>)
\* The fields of a service entry: repeat (or none), a name, and either a host
\* built from the context and the service's own fields or a nested list.
ServiceRepeats == {<<>>} \cup {[repeat |-> Num(n)] : n \in 0..MaxRepeat}
ServiceNames == {<<>>, [name |-> Text("db")], [name |-> IndexedName]}
ServiceExtras ==
    {<<>>,
     [host |-> Str(<<Ref("domain"), Lit("-"), Ref("port"), Lit("-"), Ref("$index")>>),
      port |-> Num(7900)],
     [restNodes |-> Arr(<<Obj([repeat |-> Num(2), url |-> Str(<<Ref("port"), Lit("/"), Ref("$index")>>)])>>),
      port |-> Num(3000)]}
ServiceEntries ==
    {Obj(Spread(Spread(r, n), e)) : <<r, n, e>> \in ServiceRepeats \X ServiceNames \X ServiceExtras}
    \cup {Str(<<Lit("http://"), Ref("domain")>>), Num(0)}
TemplateContexts == {[domain |-> Text("net"), port |-> Num(1)], [domain |-> Text("org")]}

TplInit ==
    /\ tplContext \in TemplateContexts
    /\ tplServices \in UNION {[1..n -> ServiceEntries] : n \in 0..MaxServices}
    /\ expanded = Pending
    /\ GaIdle /\ MpIdle /\ CpIdle /\ CfgIdle /\ SvcIdle /\ MigIdle /\ VotIdle /\ LnkIdle /\ StoIdle

ExpandServicesRepeat ==
    /\ expanded = Pending
    /\ expanded' = Returned(expandServicesRepeat(tplContext, tplServices))
    /\ UNCHANGED <<tplContext, tplServices, gaVars, mpVars, cpVars, cfgVars, svcVars, migVars, votVars, lnkVars, stoVars>>

TplNext == ExpandServicesRepeat
SpecRepeat == TplInit /\ [][TplNext]_vars

(***************************************************************************)
(* Specification of createPresetData: a first resolution with any params,  *)
(* then an upgrade whose oldPresetData is what the first one returned.     *)
(***************************************************************************)
SharedPreset == Obj([domain |-> Text("local"), peerPort |-> Num(7900)])
NetworkPresets ==
    [testnet |-> Obj([networkType |-> Num(152),
                      inflation |-> Obj([key \in InflationKeys |-> Num(95)])]),
     bootstrap |-> Obj([networkType |-> Num(152),
                        nemesis |-> Obj([mosaics |->
                            Arr(<<Obj([name |-> Text("currency"), accounts |-> Num(2)]),
                                  Obj([repeat |-> Num(0), name |-> Text("harvest")])>>)])])]
Assemblies ==
    [dual |-> Obj([databases |-> Arr(<<Obj([name |-> Text("db")])>>),
                   nodes |-> Arr(<<Obj([harvesting |-> Bool(TRUE), api |-> Bool(TRUE),
                                        name |-> Text("node"), databaseHost |-> Text("db")])>>),
                   gateways |-> Arr(<<Obj([name |-> Text("rest-gateway"),
                                           apiNodeHost |-> Str(<<Lit("node."), Ref("domain")>>)])>>)]),
     multinode |-> Obj([databases |-> Arr(<<Obj([repeat |-> Num(1), name |-> Text("db")])>>),
                        nodes |-> Arr(<<Obj([repeat |-> Num(MaxRepeat), harvesting |-> Bool(TRUE),
                                             name |-> Str(<<Lit("peer-node-"), Ref("$index")>>)]),
                                        Obj([repeat |-> Num(1), api |-> Bool(TRUE),
                                             name |-> Str(<<Lit("api-node-"), Ref("$index")>>)])>>),
                        faucets |-> Arr(<<Obj([repeat |-> Num(0), name |-> Text("faucet")])>>)])]
PresetFiles ==
    [f \in {"custom-network.yml", "custom-assembly.yml", "custom-preset.yml"} |->
        IF f = "custom-network.yml" THEN Obj([networkType |-> Num(104)])
        ELSE IF f = "custom-assembly.yml"
        THEN Obj([nodes |-> Arr(<<Obj([repeat |-> Num(2), name |-> IndexedName])>>)])
        ELSE Obj([assembly |-> Text("multinode"),
                  wallets |-> Arr(<<Obj([repeat |-> Num(2), name |-> Text("wallet"),
                                         port |-> Str(<<Lit("8"), Ref("$index")>>)])>>)])]
\* seeds: the bundled presets that ship a nemesis seed (presets/<preset>/seed).
Root == [shared |-> SharedPreset, networks |-> NetworkPresets, assemblies |-> Assemblies,
         files |-> PresetFiles, seeds |-> {"testnet"}]

CustomPresetObjects ==
    {Undefined, EmptyObject, Obj([preset |-> Text("bootstrap")]),
     Obj([assembly |-> Text("multinode"),
          faucets |-> Arr(<<Obj([repeat |-> Num(1), name |-> Text("f")])>>)])}
    \cup {Obj([nodes |-> Arr(<<Obj([repeat |-> Num(r), voting |-> Bool(TRUE)])>>)]) :
          r \in 0..MaxRepeat}
FirstParams ==
    [root : {Root},
     preset : {Undefined, Text("testnet"), Text("bootstrap"), Text("custom-network.yml"),
               Text("missing.yml"), Text("unknown")},
     assembly : {Undefined, Text("dual"), Text("multinode"), Text("custom-assembly.yml"),
                 Text("unknown")},
     customPreset : {Undefined, Text("custom-preset.yml"), Text("missing.yml")},
     customPresetObject : CustomPresetObjects,
     oldPresetData : {Undefined}]
UpgradeParams ==
    [root : {Root},
     preset : {Undefined, Text("bootstrap")},
     assembly : {Undefined, Text("dual")},
     customPreset : {Undefined, Text("custom-preset.yml")},
     customPresetObject : {Undefined, Obj([nodes |-> Arr(<<Obj([repeat |-> Num(2)])>>)])}]

MaxUpgrades == 2    \* resolutions of a target after the first

CpInit ==
    /\ cpParams \in FirstParams
    /\ cpResult = Pending
    /\ cpRun = 0
    /\ cpBase = Undefined
    /\ GaIdle /\ MpIdle /\ TplIdle /\ CfgIdle /\ SvcIdle /\ MigIdle /\ VotIdle /\ LnkIdle /\ StoIdle

\* The first resolution of a target.
CreatePresetData ==
    /\ cpResult = Pending
    /\ \E result \in {createPresetData(cpParams)} :
          /\ cpResult' = result
          /\ cpBase' = result
    /\ cpRun' = 1
    /\ UNCHANGED <<cpParams, gaVars, mpVars, tplVars, cfgVars, svcVars, migVars, votVars, lnkVars, stoVars>>

\* the call is given no preset, no assembly and no custom preset
noArguments(params) ==
    /\ ~Truthy(params.preset) /\ ~Truthy(params.assembly)
    /\ ~Truthy(params.customPreset) /\ params.customPresetObject = Undefined

\* A later resolution of the same target: the stored preset is the old preset.
UpgradePresetData ==
    /\ cpResult # Pending /\ ~cpResult.threw
    /\ cpRun <= MaxUpgrades
    /\ \E params \in UpgradeParams :
          \E result \in {createPresetData(Spread(params, [oldPresetData |-> cpResult.value]))} :
              /\ cpParams' = Spread(params, [oldPresetData |-> cpResult.value])
              /\ cpResult' = result
              /\ cpBase' = IF noArguments(params) THEN cpBase ELSE result
    /\ cpRun' = cpRun + 1
    /\ UNCHANGED <<gaVars, mpVars, tplVars, cfgVars, svcVars, migVars, votVars, lnkVars, stoVars>>

CpNext == CreatePresetData \/ UpgradePresetData
SpecPreset == CpInit /\ [][CpNext]_vars

(***************************************************************************)
(* Specification of generateRandomConfiguration: a first run on a resolved *)
(* preset, then an upgrade whose oldAddresses and oldPresetData are what    *)
(* the first run left, on the same resolved preset or on a changed one.     *)
(***************************************************************************)
NetworkType == "TEST_NET"
ExplicitAddress(i) == AddressOf(100 + i, NetworkType)

\* currencyDistributions a preset declares for a mosaic (absent: the empty record).
ExplicitDistributions ==
    {[amounts |-> <<>>, declared |-> FALSE]}
    \cup {[amounts |-> <<a>>, declared |-> TRUE] : a \in (-1)..MaxSupply}
    \cup {[amounts |-> <<1, 1>>, declared |-> TRUE]}
MosaicPreset(name, supply, accounts, explicit) ==
    Spread(Spread([name |-> name, supply |-> supply],
                  IF accounts = 0 THEN [supply |-> supply] ELSE [accounts |-> accounts]),
           IF explicit.declared
           THEN [currencyDistributions |->
                    [i \in 1..Len(explicit.amounts) |->
                        [address |-> ExplicitAddress(i), amount |-> explicit.amounts[i]]]]
           ELSE [supply |-> supply])
CurrencyMosaics ==
    {MosaicPreset("currency", supply, accounts, explicit) :
        supply \in 0..MaxSupply, accounts \in 0..MaxAccounts, explicit \in ExplicitDistributions}
HarvestMosaic == MosaicPreset("harvest", MaxSupply, 0, [amounts |-> <<>>, declared |-> FALSE])
NemesisMosaics ==
    {<<m>> : m \in CurrencyMosaics}
    \cup (IF MaxMosaics > 1 THEN {<<m, HarvestMosaic>> : m \in CurrencyMosaics} ELSE {})

\* Nodes of the distribution presets: with or without a declared balance.
BalanceNodes ==
    {[harvesting |-> Bool(FALSE)], [harvesting |-> Bool(FALSE), balances |-> <<1>>],
     [harvesting |-> Bool(FALSE), balances |-> <<-1>>],
     [harvesting |-> Bool(FALSE), balances |-> <<0, -1>>]}
BalanceNodeLists == UNION {[1..n -> BalanceNodes] : n \in 0..MaxNodes}

DistributionPresets ==
    {[networkType |-> NetworkType, privateKeySecurityMode |-> "ENCRYPT", preset |-> "bootstrap",
      maxHarvesterBalance |-> h, nodes |-> nodes, nemesis |-> [mosaics |-> mosaics]] :
        h \in {1, MaxSupply}, nodes \in BalanceNodeLists, mosaics \in NemesisMosaics}

\* Nodes of the account presets: the flags that select a node's accounts, and how
\* the main key is supplied (a user writes hex in lower case).
KeyedNodes ==
    {Spread(Spread([harvesting |-> Bool(harvesting), voting |-> Bool(~harvesting),
                    nodeUseRemoteAccount |-> Bool(remote)],
                   IF reward THEN [rewardProgram |-> Bool(TRUE)] ELSE [harvesting |-> Bool(harvesting)]),
            CASE key = "private" -> [mainPrivateKey |-> Hex(1, TRUE)]
              [] key = "public" -> [mainPublicKey |-> Hex(PublicKeyOf(1), TRUE)]
              [] OTHER -> [harvesting |-> Bool(harvesting)]) :
        harvesting \in BOOLEAN, remote \in BOOLEAN, reward \in BOOLEAN,
        key \in {"none", "private", "public"}}
\* How a preset stands to its nemesis: created here (signer key generated or supplied),
\* shipped as a seed of the bundled preset, or given as a seed folder.
NemesisKinds == {"create", "create-with-signer", "bundled-seed", "seed-folder"}
NemesisOf(kind) ==
    CASE kind = "create" ->
            [preset |-> "bootstrap", nemesis |-> [mosaics |-> <<HarvestMosaic>>]]
      [] kind = "create-with-signer" ->
            [preset |-> "custom-network.yml",
             nemesis |-> [mosaics |-> <<HarvestMosaic>>, nemesisSignerPrivateKey |-> Hex(MaxKey, TRUE)]]
      [] kind = "bundled-seed" ->
            [preset |-> "testnet", nemesis |-> [mosaics |-> <<HarvestMosaic>>],
             nemesisSignerPublicKey |-> Hex(PublicKeyOf(MaxKey), FALSE)]
      [] kind = "seed-folder" ->
            [preset |-> "bootstrap", nemesisSeedFolder |-> "seed",
             nemesis |-> [mosaics |-> <<HarvestMosaic>>],
             nemesisSignerPublicKey |-> Hex(PublicKeyOf(MaxKey), FALSE),
             nemesisGenerationHashSeed |-> [bytes |-> 0]]
AccountPresets ==
    {Spread(Spread([networkType |-> NetworkType, privateKeySecurityMode |-> mode,
                    maxHarvesterBalance |-> MaxSupply, nodes |-> <<node>>],
                   NemesisOf(kind)),
            IF sinks
            THEN [n \in {SinkFields[i] : i \in 1..Len(SinkFields)} |-> ExplicitAddress(0)]
            ELSE [networkType |-> NetworkType]) :
        mode \in PrivateKeySecurityModes, node \in KeyedNodes, kind \in NemesisKinds,
        sinks \in BOOLEAN}

\* Nodes of the role presets: every combination of the flags that select a node's
\* accounts, on the node and on the preset.
RoleNodes ==
    {[harvesting |-> Bool(harvesting), voting |-> Bool(voting),
      nodeUseRemoteAccount |-> Bool(remote), rewardProgram |-> Bool(reward)] :
        harvesting \in BOOLEAN, voting \in BOOLEAN, remote \in BOOLEAN, reward \in BOOLEAN}
RolePresets ==
    {Spread([networkType |-> NetworkType, privateKeySecurityMode |-> "ENCRYPT",
             maxHarvesterBalance |-> MaxSupply, nodes |-> <<node>>,
             nodeUseRemoteAccount |-> Bool(remote)],
            NemesisOf("create")) :
        node \in RoleNodes, remote \in BOOLEAN}

\* Mosaics whose free accounts are given as a list of private keys, an empty one included.
KeyedMosaics ==
    {[name |-> "currency", supply |-> MaxSupply, accountKeys |-> keys] :
        keys \in {<<>>, <<Hex(1, TRUE)>>}}
KeyedMosaicPresets ==
    {[networkType |-> NetworkType, privateKeySecurityMode |-> "ENCRYPT", preset |-> "bootstrap",
      maxHarvesterBalance |-> 1, nodes |-> nodes, nemesis |-> [mosaics |-> mosaics]] :
        nodes \in BalanceNodeLists,
        mosaics \in {<<m>> : m \in KeyedMosaics} \cup {<<m, HarvestMosaic>> : m \in KeyedMosaics}}

\* Presets that supply every key generateAccount is asked for: no node or a node with
\* its main and transport keys, and the key of the nemesis signer.
SuppliedNodeLists ==
    {<<>>, <<[mainPrivateKey |-> Hex(1, TRUE), transportPrivateKey |-> Hex(2, TRUE)]>>}
SuppliedPresets ==
    {Spread([networkType |-> NetworkType, privateKeySecurityMode |-> mode,
             maxHarvesterBalance |-> MaxSupply, nodes |-> nodes],
            NemesisOf("create-with-signer")) :
        mode \in PrivateKeySecurityModes, nodes \in SuppliedNodeLists}

ResolvedPresets ==
    DistributionPresets \cup AccountPresets \cup RolePresets \cup SuppliedPresets
    \cup KeyedMosaicPresets

\* What an upgrade may be given: the same resolved preset, one whose nemesis section
\* changed, or one with a further node.
ChangedNemesis ==
    [mosaics |-> <<MosaicPreset("currency", MaxSupply, MaxAccounts,
                                [amounts |-> <<>>, declared |-> FALSE])>>]
NegativeNemesis ==
    [mosaics |-> <<MosaicPreset("currency", MaxSupply, 1, [amounts |-> <<-1>>, declared |-> TRUE])>>]
UpgradePresets(first) ==
    {first}
    \cup (IF has(first, "nemesis")
          THEN {[first EXCEPT !.nemesis = ChangedNemesis], [first EXCEPT !.nemesis = NegativeNemesis]}
          ELSE {})
    \cup (IF has(first, "nodes") /\ Len(first.nodes) < MaxNodes
          THEN {[first EXCEPT !.nodes = Append(@, [harvesting |-> Bool(TRUE)])]} ELSE {})

CfgInit ==
    /\ resolvedPreset \in ResolvedPresets
    /\ firstPreset = resolvedPreset
    /\ storedAddresses = Undefined /\ storedPreset = Undefined
    /\ run = 0
    /\ cfgResult = Pending
    /\ GaIdle /\ MpIdle /\ TplIdle /\ CpIdle /\ SvcIdle /\ MigIdle /\ VotIdle /\ LnkIdle /\ StoIdle

\* What the state keeps of a run: its outcome and the preset it was given.
Outcome(result, input) ==
    IF result.threw THEN result @@ [input |-> input]
    ELSE [threw |-> FALSE, value |-> result.value, generated |-> result.generated,
          input |-> input]

\* The first run of a target: no addresses.yml, no preset.yml.
Configure ==
    /\ run = 0
    /\ \E seed \in 1..MaxRandom :
          \E result \in {generateRandomConfiguration(Root, Undefined, Undefined,
                                                     resolvedPreset, seed)} :
              /\ cfgResult' = Outcome(result, resolvedPreset)
              /\ resolvedPreset' = IF result.threw THEN resolvedPreset ELSE result.presetData
    /\ run' = 1
    /\ UNCHANGED <<storedAddresses, storedPreset, firstPreset, gaVars, mpVars, tplVars, cpVars, svcVars, migVars, votVars, lnkVars, stoVars>>

\* A later run of the same target: the first run's outputs are the old ones.
Upgrade ==
    /\ run = 1 /\ ~cfgResult.threw
    /\ \E input \in UpgradePresets(firstPreset), seed \in 1..MaxRandom :
          \E result \in {generateRandomConfiguration(Root, cfgResult.value, resolvedPreset,
                                                     input, seed)} :
              /\ cfgResult' = Outcome(result, input)
              /\ resolvedPreset' = IF result.threw THEN input ELSE result.presetData
    /\ storedAddresses' = cfgResult.value
    /\ storedPreset' = resolvedPreset
    /\ run' = 2
    /\ UNCHANGED <<firstPreset, gaVars, mpVars, tplVars, cpVars, svcVars, migVars, votVars, lnkVars, stoVars>>

CfgNext == Configure \/ Upgrade
SpecConfig == CfgInit /\ [][CfgNext]_vars

(***************************************************************************)
(* Specification of ConfigService.run: runs one after the other on one     *)
(* target folder, each with any params, each step completing or throwing.  *)
(***************************************************************************)
MaxRuns == 2

RunParams == [upgrade : BOOLEAN, reset : BOOLEAN]

\* the target folders an earlier run, or a user deleting a file, can leave
FoundTargets == [TargetFiles -> {0, 1}]

SvcInit ==
    /\ target \in FoundTargets
    /\ svcParams = Undefined /\ svcRun = 1 /\ svcPc = "idle" /\ svcStep = 0
    /\ svcBefore = Undefined /\ svcWritten = {} /\ svcResult = Undefined
    /\ GaIdle /\ MpIdle /\ TplIdle /\ CpIdle /\ CfgIdle /\ MigIdle /\ VotIdle /\ LnkIdle /\ StoIdle

\* run() is called: lines 116-149
StartRun ==
    /\ svcPc # "running"
    /\ svcRun <= MaxRuns
    /\ \E params \in RunParams : \E old \in {loadOld(target, params, svcRun)} :
         /\ svcParams' = params
         /\ svcRun' = svcRun + 1
         /\ svcBefore' = target
         /\ target' = old.folder
         /\ svcPc' = old.pc
         /\ svcStep' = 1
         /\ svcWritten' = {}
         /\ svcResult' = old.result
    /\ UNCHANGED <<gaVars, mpVars, tplVars, cpVars, cfgVars, migVars, votVars, lnkVars, stoVars>>

\* the next awaited step of lines 151-174 completes
CompleteStep ==
    /\ svcPc = "running"
    /\ \E file \in {writes(RunSequence[svcStep])} :
         /\ target' = IF file = "" THEN target ELSE [target EXCEPT ![file] = svcRun]
         /\ svcWritten' = IF file = "" THEN svcWritten ELSE svcWritten \cup {file}
    /\ svcStep' = svcStep + 1
    /\ svcPc' = IF svcStep = Len(RunSequence) THEN "done" ELSE "running"
    /\ svcResult' = IF svcStep = Len(RunSequence) THEN Returned(svcRun) ELSE svcResult
    /\ UNCHANGED <<svcParams, svcRun, svcBefore, gaVars, mpVars, tplVars, cpVars, cfgVars, migVars, votVars, lnkVars, stoVars>>

\* the next awaited step throws, the catch of lines 177-186 logs and rethrows
FailStep ==
    /\ svcPc = "running"
    /\ \E errorClass \in throws(RunSequence[svcStep]) :
         svcResult' = [threw |-> TRUE, error |-> errorClass, names |-> "", at |-> RunSequence[svcStep]]
    /\ svcPc' = "failed"
    /\ UNCHANGED <<target, svcParams, svcRun, svcStep, svcBefore, svcWritten,
                   gaVars, mpVars, tplVars, cpVars, cfgVars, migVars, votVars, lnkVars, stoVars>>

SvcNext == StartRun \/ CompleteStep \/ FailStep

SpecRun == SvcInit /\ [][SvcNext]_vars

(***************************************************************************)
(* Specification of migrateAddresses: a stored addresses document, legacy  *)
(* or current, is loaded; a later load migrates what the earlier one gave. *)
(***************************************************************************)
\* the node entries of a stored document: any of the legacy fields, or the current ones
StoredNodes ==
    {[f \in fields |-> IF f = "signing" THEN StoredAccount(1) ELSE StoredAccount(2)] :
        fields \in SUBSET {"signing", "ssl", "node"}}
    \cup {[main |-> StoredAccount(1), transport |-> StoredAccount(2)],
          [main |-> StoredAccount(1), node |-> StoredAccount(2)]}
StoredDocuments ==
    {[version |-> 1, networkType |-> "TEST_NET"]}
    \cup UNION {{[version |-> v, networkType |-> "TEST_NET", nodes |-> nodes] :
                    v \in 1..AddressesVersion, nodes \in [1..n -> StoredNodes]} : n \in 0..MaxNodes}

MigInit ==
    /\ migFrom \in StoredDocuments
    /\ migResult = Pending
    /\ migRun = 0
    /\ GaIdle /\ MpIdle /\ TplIdle /\ CpIdle /\ CfgIdle /\ SvcIdle /\ VotIdle /\ LnkIdle /\ StoIdle

\* loadExistingAddressesIfPreset migrates the document it loads; every load draws
\* random values of its own
LoadAddresses ==
    /\ migRun < MaxRandom
    /\ \E document \in {IF migRun = 0 THEN migFrom ELSE migResult.value} :
          /\ migFrom' = document
          /\ migResult' = Returned(migrateAddresses(document, document.networkType, migRun + 1))
    /\ migRun' = migRun + 1
    /\ UNCHANGED <<gaVars, mpVars, tplVars, cpVars, cfgVars, svcVars, votVars, lnkVars, stoVars>>

MigNext == LoadAddresses
SpecMigrate == MigInit /\ [][MigNext]_vars

(***************************************************************************)
(* Specification of VotingService.run: the runs of one node on a folder    *)
(* that starts empty, at any network epoch, with any arguments.            *)
(***************************************************************************)
MaxLifetime == 3
MaxEpoch    == 4
MaxFiles    == 3

VotingPresets ==
    [votingKeyDesiredLifetime : 1..MaxLifetime, votingKeyDesiredFutureLifetime : 0..MaxLifetime,
     autoUpdateVotingKeys : BOOLEAN, lastKnownNetworkEpoch : {0, 2}]
VotingArgs ==
    [voting : BOOLEAN, currentNetworkEpoch : 0..MaxEpoch,
     updateVotingKey : {"undefined", "true", "false"}]

VotInit ==
    /\ votPreset \in VotingPresets
    /\ votFiles = <<>>
    /\ votArgs = Undefined /\ votBefore = <<>> /\ votVoting = Undefined /\ votResult = Pending
    /\ GaIdle /\ MpIdle /\ TplIdle /\ CpIdle /\ CfgIdle /\ SvcIdle /\ MigIdle /\ LnkIdle /\ StoIdle

VotingRun ==
    /\ Len(votFiles) < MaxFiles
    /\ \E args \in VotingArgs :
         \E result \in {votingRun(votPreset, [voting |-> args.voting], args.currentNetworkEpoch,
                                  args.updateVotingKey, votFiles)} :
            /\ votArgs' = args
            /\ votBefore' = votFiles
            /\ votFiles' = result.files
            /\ votVoting' = IF has(result, "voting") THEN result.voting ELSE votVoting
            /\ votResult' = result
    /\ UNCHANGED <<votPreset, gaVars, mpVars, tplVars, cpVars, cfgVars, svcVars, migVars, lnkVars, stoVars>>

VotNext == VotingRun
SpecVoting == VotInit /\ [][VotNext]_vars

(***************************************************************************)
(* Specification of addVotingKeyLinkTransactions: one call, step by step,  *)
(* for any linked keys the network allows (at most 3, no two overlapping),  *)
(* any voting key files and any answers to the unlink confirmations.        *)
(***************************************************************************)
MaxLinkFiles == 2

\* the epochs of the keys and of the files: first and last epoch
LinkEpochs == {<<1, 2>>, <<3, 4>>, <<5, 6>>, <<7, 8>>, <<2, 5>>}

\* the network epochs of a call: none of the keys has expired, the first ones have
LinkNetworkEpochs == {1, 3}

VotingKeyAccount(ref, publicKey, epochs) ==
    [ref |-> ref, publicKey |-> publicKey, startEpoch |-> epochs[1], endEpoch |-> epochs[2]]

LinkedLists ==
    {linked \in UNION {[1..n -> {VotingKeyAccount(0, Hex(1, FALSE), e) : e \in LinkEpochs}] :
                          n \in 0..3} :
        \A i, j \in 1..Len(linked) : i # j => ~overlapsVotingAccounts(linked[i], linked[j])}
FileLists ==
    UNION {[1..n -> {VotingKeyAccount(0, k, e) :
                        k \in {Hex(1, TRUE), Hex(2, FALSE)}, e \in LinkEpochs}] :
              n \in 0..MaxLinkFiles}
\* every object of a list is given its identity
identified(list, first) == [i \in 1..Len(list) |-> [list[i] EXCEPT !.ref = first + i]]

LnkInit ==
    /\ \E linked \in LinkedLists, files \in FileLists, epoch \in LinkNetworkEpochs :
          lnkArgs = [linkedVotingKeyAccounts |-> identified(linked, 0),
                     votingKeyFiles |-> identified(files, 3),
                     lastKnownNetworkEpoch |-> epoch]
    /\ lnkLinked = lnkArgs.linkedVotingKeyAccounts
    /\ lnkRemaining = lnkArgs.linkedVotingKeyAccounts
    /\ lnkAliased = TRUE
    /\ lnkActive = <<>>
    /\ lnkTransactions = <<>>
    /\ lnkPc = "expired"
    /\ lnkIndex = 1
    /\ GaIdle /\ MpIdle /\ TplIdle /\ CpIdle /\ CfgIdle /\ SvcIdle /\ MigIdle /\ VotIdle /\ StoIdle

\* one turn of the loop of lines 104-116
UnlinkExpired ==
    /\ lnkPc = "expired" /\ lnkIndex <= Len(lnkLinked)
    /\ \E confirmUnlink \in BOOLEAN :
         \E step \in {unlinkExpired(lnkRemaining, lnkLinked[lnkIndex],
                                    lnkArgs.lastKnownNetworkEpoch, confirmUnlink)} :
            /\ lnkRemaining' = step.remaining
            /\ lnkAliased' = (lnkAliased /\ ~step.replaced)
            /\ lnkTransactions' = lnkTransactions \o step.pushed
    /\ lnkIndex' = lnkIndex + 1
    /\ UNCHANGED <<lnkArgs, lnkLinked, lnkActive, lnkPc,
                   gaVars, mpVars, tplVars, cpVars, cfgVars, svcVars, migVars, votVars, stoVars>>

\* line 117
FilterActive ==
    /\ lnkPc = "expired" /\ lnkIndex > Len(lnkLinked)
    /\ lnkActive' = SelectSeq(lnkArgs.votingKeyFiles,
                              LAMBDA a : a.endEpoch >= lnkArgs.lastKnownNetworkEpoch)
    /\ lnkPc' = "files"
    /\ lnkIndex' = 1
    /\ UNCHANGED <<lnkArgs, lnkLinked, lnkRemaining, lnkAliased, lnkTransactions,
                   gaVars, mpVars, tplVars, cpVars, cfgVars, svcVars, migVars, votVars, stoVars>>

\* one turn of the loop of lines 118-156; the push of line 154 is a push to
\* linkedVotingKeyAccounts as long as remainingVotingKeys is that array
LinkVotingKeyFile ==
    /\ lnkPc = "files" /\ lnkIndex <= Len(lnkActive)
    /\ \E confirmUnlink \in BOOLEAN :
         \E step \in {linkVotingKeyFile(lnkRemaining, lnkActive[lnkIndex], confirmUnlink)} :
            /\ lnkRemaining' = step.remaining
            /\ lnkAliased' = (lnkAliased /\ ~step.replaced)
            /\ lnkLinked' = IF lnkAliased /\ ~step.replaced THEN step.remaining ELSE lnkLinked
            /\ lnkTransactions' = lnkTransactions \o step.pushed
    /\ lnkIndex' = lnkIndex + 1
    /\ UNCHANGED <<lnkArgs, lnkActive, lnkPc,
                   gaVars, mpVars, tplVars, cpVars, cfgVars, svcVars, migVars, votVars, stoVars>>

\* line 157
ReturnTransactions ==
    /\ lnkPc = "files" /\ lnkIndex > Len(lnkActive)
    /\ lnkPc' = "done"
    /\ UNCHANGED <<lnkArgs, lnkLinked, lnkRemaining, lnkAliased, lnkActive, lnkTransactions, lnkIndex,
                   gaVars, mpVars, tplVars, cpVars, cfgVars, svcVars, migVars, votVars, stoVars>>

LnkNext == UnlinkExpired \/ FilterActive \/ LinkVotingKeyFile \/ ReturnTransactions
SpecLink == LnkInit /\ [][LnkNext]_vars

(***************************************************************************)
(* Specification of LocalFileAccountStorage: one storage object, its calls *)
(* started in any order, each returning when its save has ended, in any     *)
(* order.                                                                   *)
(***************************************************************************)
MaxStorageCalls == 3

StoreNodes    == {1, 2}
StoreKeyNames == {"Main", "Transport"}
StoreNetworkAccounts == {"founder"}
StoreVotingFiles == {votingFileKey(n, 1, 2) : n \in StoreNodes}

\* { nodes: {}, network: {}, votingFiles: {} }
defaultValue ==
    [nodes |-> [n \in {nodeKeyOf(n) : n \in StoreNodes} |-> [k \in StoreKeyNames |-> Undefined]],
     network |-> [a \in StoreNetworkAccounts |-> Undefined],
     votingFiles |-> [f \in StoreVotingFiles |-> Undefined]]

\* the storage files a new storage object can find: none, or one of an earlier use
StoredValues ==
    {defaultValue,
     [defaultValue EXCEPT !.nodes[nodeKeyOf(1)]["Main"] = StoredAccount(1)],
     [defaultValue EXCEPT !.nodes[nodeKeyOf(1)]["Main"] = StoredAccount(1),
                          !.network["founder"] = StoredAccount(2)]}

\* the private key the next call draws if it generates an account
nextKey == MaxKey + stoCount + 1

StoInit ==
    /\ stoStorage \in StoredValues
    /\ stoFile = stoStorage
    /\ stoPending = {}
    /\ stoCount = 0
    /\ stoLog = <<>>
    /\ GaIdle /\ MpIdle /\ TplIdle /\ CpIdle /\ CfgIdle /\ SvcIdle /\ MigIdle /\ VotIdle /\ LnkIdle

\* a call that has reached await this.save()
Saving(op, name, account, storage) ==
    [id |-> stoCount + 1, op |-> op, name |-> name, account |-> account, pc |-> "saving",
     snapshot |-> storage]

\* getNodeAccount is called: lines 141-147, to the await
CallGetNodeAccount ==
    /\ stoCount < MaxStorageCalls
    /\ \E number \in StoreNodes, keyName \in StoreKeyNames :
         \E call \in {getNodeAccount(stoStorage, "TEST_NET", keyName, number, nextKey)} :
            /\ stoStorage' = call.storage
            /\ stoPending' = stoPending
                  \cup {Saving("getNodeAccount", <<nodeKeyOf(number), keyName>>, call.account,
                               call.storage)}
    /\ stoCount' = stoCount + 1
    /\ UNCHANGED <<stoFile, stoLog, gaVars, mpVars, tplVars, cpVars, cfgVars, svcVars,
                   migVars, votVars, lnkVars>>

\* getNetworkAccount (lines 116-120), getNetworkAccountIfExists (lines 125-132) or
\* saveNetworkAccount (lines 110-112) is called, to the await or, for an account
\* that does not exist, to the return of undefined
CallNetworkAccount ==
    /\ stoCount < MaxStorageCalls
    /\ \E accountName \in StoreNetworkAccounts,
          op \in {"getNetworkAccount", "getNetworkAccountIfExists", "saveNetworkAccount"} :
         \E call \in {IF op = "saveNetworkAccount"
                      THEN [storage |-> saveNetworkAccount(stoStorage, "TEST_NET", accountName,
                                                           Hex(1, TRUE)),
                            account |-> Undefined]
                      ELSE getNetworkAccount(stoStorage, "TEST_NET", accountName, nextKey)} :
            IF op = "getNetworkAccountIfExists" /\ stoStorage.network[accountName] = Undefined
            THEN UNCHANGED <<stoStorage, stoPending>>
            ELSE /\ stoStorage' = call.storage
                 /\ stoPending' = stoPending \cup {Saving(op, accountName, call.account, call.storage)}
    /\ stoCount' = stoCount + 1
    /\ UNCHANGED <<stoFile, stoLog, gaVars, mpVars, tplVars, cpVars, cfgVars, svcVars,
                   migVars, votVars, lnkVars>>

\* getVotingKeyFile is called: lines 81-102, to the return of the stored file or to
\* the await of createVotingFile
CallGetVotingKeyFile ==
    /\ stoCount < MaxStorageCalls
    /\ \E name \in StoreVotingFiles :
         IF stoStorage.votingFiles[name] # Undefined
         THEN UNCHANGED stoPending
         ELSE stoPending' = stoPending
                 \cup {[id |-> stoCount + 1, op |-> "getVotingKeyFile", name |-> name,
                        account |-> [publicKey |-> Hex(PublicKeyOf(nextKey), FALSE),
                                     startEpoch |-> name[3], endEpoch |-> name[4]],
                        pc |-> "creating", snapshot |-> Undefined]}
    /\ stoCount' = stoCount + 1
    /\ UNCHANGED <<stoStorage, stoFile, stoLog, gaVars, mpVars, tplVars, cpVars, cfgVars,
                   svcVars, migVars, votVars, lnkVars>>

\* createVotingFile resolves: lines 103-105, to the await of save()
StoreVotingKeyFile ==
    /\ \E call \in stoPending :
         /\ call.pc = "creating"
         /\ stoStorage' = [stoStorage EXCEPT !.votingFiles[call.name] = call.account]
         /\ stoPending' = (stoPending \ {call})
               \cup {[call EXCEPT !.pc = "saving",
                                  !.snapshot = [stoStorage EXCEPT !.votingFiles[call.name] =
                                                                       call.account]]}
    /\ UNCHANGED <<stoFile, stoCount, stoLog, gaVars, mpVars, tplVars, cpVars, cfgVars,
                   svcVars, migVars, votVars, lnkVars>>

\* the save() of a call resolves and the call returns
SaveResolves ==
    /\ \E call \in stoPending :
         /\ call.pc = "saving"
         /\ stoFile' = call.snapshot
         /\ stoPending' = stoPending \ {call}
         /\ stoLog' = IF call.op = "getNodeAccount"
                      THEN Append(stoLog, [name |-> call.name,
                                           privateKey |-> call.account.privateKey,
                                           saved |-> call.snapshot.nodes[call.name[1]][call.name[2]]])
                      ELSE stoLog
    /\ UNCHANGED <<stoStorage, stoCount, gaVars, mpVars, tplVars, cpVars, cfgVars,
                   svcVars, migVars, votVars, lnkVars>>

StoNext ==
    \/ CallGetNodeAccount \/ CallNetworkAccount \/ CallGetVotingKeyFile
    \/ StoreVotingKeyFile \/ SaveResolves
SpecStorage == StoInit /\ [][StoNext]_vars

(***************************************************************************)
(* Claims about generateAccount (checked under SpecAccount).               *)
(***************************************************************************)
gaReturned == gaResult # Pending /\ gaResult # Undefined
gaNothingSupplied == gaArgs.privateKey = Undefined /\ gaArgs.publicKey = Undefined
\* The account the supplied keys stand for: the private key's when one is given.
gaSupplied ==
    IF gaArgs.privateKey # Undefined
    THEN [privateKey |-> Hex(gaArgs.privateKey.id, FALSE),
          publicKey |-> Hex(PublicKeyOf(gaArgs.privateKey.id), FALSE),
          address |-> AddressOf(PublicKeyOf(gaArgs.privateKey.id), gaArgs.networkType)]
    ELSE [publicKey |-> Hex(gaArgs.publicKey.id, FALSE),
          address |-> AddressOf(gaArgs.publicKey.id, gaArgs.networkType)]

\* C4: with neither an old stored account nor a supplied key, generateAccount throws
\* a configuration error (and returns no account) exactly for Main under PROMPT_MAIN,
\* PROMPT_MAIN_TRANSPORT or PROMPT_ALL, for Transport under PROMPT_MAIN_TRANSPORT or
\* PROMPT_ALL, and for any other role under PROMPT_ALL; otherwise it returns a
\* freshly generated account.
C4_GenerationPolicy ==
    (gaReturned /\ gaArgs.oldStoredAccount = Undefined /\ gaNothingSupplied) =>
        LET mode == gaArgs.privateKeySecurityMode
            forbidden ==
                \/ gaArgs.keyName = "Main"
                   /\ mode \in {"PROMPT_MAIN", "PROMPT_MAIN_TRANSPORT", "PROMPT_ALL"}
                \/ gaArgs.keyName = "Transport"
                   /\ mode \in {"PROMPT_MAIN_TRANSPORT", "PROMPT_ALL"}
                \/ gaArgs.keyName \notin {"Main", "Transport"} /\ mode = "PROMPT_ALL"
        IN  /\ gaResult.threw <=> forbidden
            /\ gaResult.threw =>
                  /\ gaResult.error = "KnownError"
                  /\ "value" \notin DOMAIN gaResult
                  /\ ~gaResult.generated
            /\ ~gaResult.threw =>
                  /\ gaResult.generated
                  /\ gaResult.value.privateKey.id \in RandomKeys
                  /\ gaResult.value.publicKey.id = PublicKeyOf(gaResult.value.privateKey.id)
                  /\ gaResult.value.address =
                        AddressOf(gaResult.value.publicKey.id, gaArgs.networkType)
C4_Witness ==
    /\ gaReturned /\ gaArgs.oldStoredAccount = Undefined /\ gaNothingSupplied
    /\ gaArgs.keyName = "Transport" /\ gaArgs.privateKeySecurityMode = "PROMPT_MAIN"
    /\ ~gaResult.threw /\ gaResult.generated

\* C5: the decision table of generateAccount is applied in order and whatever the
\* security mode: an old account with nothing supplied is returned as it is; with no
\* old account the supplied account is returned; with both and different addresses
\* the supplied account is returned; the security-mode check and key generation are
\* reached only when there is neither an old nor a supplied account.
C5_DecisionTable ==
    gaReturned =>
        LET old == gaArgs.oldStoredAccount
        IN  /\ (old # Undefined /\ gaNothingSupplied) =>
                  ~gaResult.threw /\ gaResult.value = old
            /\ (old = Undefined /\ ~gaNothingSupplied) =>
                  ~gaResult.threw /\ gaResult.value = gaSupplied
            /\ (old # Undefined /\ ~gaNothingSupplied /\ old.address # gaSupplied.address) =>
                  ~gaResult.threw /\ gaResult.value = gaSupplied
            /\ (gaResult.threw \/ gaResult.generated) =>
                  old = Undefined /\ gaNothingSupplied
C5_Witness ==
    /\ gaReturned
    /\ gaArgs.privateKeySecurityMode = "PROMPT_ALL" /\ gaArgs.keyName = "Main"
    /\ gaArgs.oldStoredAccount # Undefined /\ ~gaNothingSupplied
    /\ gaArgs.oldStoredAccount.address # gaSupplied.address
    /\ ~gaResult.threw /\ gaResult.value = gaSupplied

\* C6: given an old and a supplied account of the same address, the result has that
\* address and public key, and has a private key whenever the old or the supplied
\* side has one (the old private key is kept when only a public key is supplied).
C6_SameAddressUnion ==
    (/\ gaReturned /\ gaArgs.oldStoredAccount # Undefined /\ ~gaNothingSupplied
     /\ gaArgs.oldStoredAccount.address = gaSupplied.address) =>
        LET old == gaArgs.oldStoredAccount
        IN  /\ ~gaResult.threw
            /\ gaResult.value.address = old.address
            /\ gaResult.value.publicKey = old.publicKey
            /\ ("privateKey" \in DOMAIN old \/ gaArgs.privateKey # Undefined) =>
                  /\ "privateKey" \in DOMAIN gaResult.value
                  /\ PublicKeyOf(gaResult.value.privateKey.id) = gaResult.value.publicKey.id
            /\ ("privateKey" \notin DOMAIN old /\ gaArgs.privateKey = Undefined) =>
                  "privateKey" \notin DOMAIN gaResult.value
C6_Witness ==
    /\ gaReturned /\ gaArgs.oldStoredAccount # Undefined
    /\ "privateKey" \in DOMAIN gaArgs.oldStoredAccount
    /\ gaArgs.privateKey = Undefined /\ gaArgs.publicKey # Undefined
    /\ gaArgs.publicKey.lower
    /\ gaArgs.oldStoredAccount.address = gaSupplied.address
    /\ ~gaResult.threw /\ "privateKey" \in DOMAIN gaResult.value

(***************************************************************************)
(* Claims about mergePresets (checked under SpecMerge).                    *)
(***************************************************************************)
mpReturned == merged # Pending /\ merged # Undefined
\* The positions of the layers that hold key, and the last of them.
Holding(key) == {i \in 1..Len(layers) : Has(layers[i], key)}
LastHolding(key) == CHOOSE i \in Holding(key) : \A j \in Holding(key) : j <= i
HoldingArray(key) == {i \in Holding(key) : isArray(layers[i].v[key])}

\* C7: when at least one layer defines inflation, the merged inflation is verbatim
\* the inflation map of the most specific (last) layer that defines it; nothing of a
\* less specific layer's inflation map is combined into it.
C7_InflationVerbatim ==
    (mpReturned /\ Holding("inflation") # {}) =>
        Get(merged, "inflation") = layers[LastHolding("inflation")].v["inflation"]

\* C8 as claimed: a key holding an array in several layers resolves to exactly the
\* array of the most specific layer that defines it.
C8_ArrayReplaced ==
    (mpReturned /\ Cardinality(HoldingArray("nodes")) >= 2
                /\ LastHolding("nodes") \in HoldingArray("nodes")) =>
        Get(merged, "nodes") = layers[LastHolding("nodes")].v["nodes"]

\* C8 as amended: arrays held by several layers are merged index by index.  The
\* merged array is as long as the longest of them; at each index the element of the
\* most specific array that reaches the index wins when it is a scalar and has all
\* its keys kept when it is an object; when exactly two layers A (less specific) and
\* B hold the array, an index beyond B keeps A's element (a shorter, more specific
\* array leaves the trailing elements of the less specific one) and two objects at
\* one index are merged key by key.  Objects are deep-merged key by key and a scalar
\* is overridden by the most specific layer that sets it.
C8_ArrayMergedByIndex ==
    mpReturned =>
        /\ (HoldingArray("nodes") # {} /\ Holding("nodes") = HoldingArray("nodes")) =>
              LET H == HoldingArray("nodes")
                  arr(i) == layers[i].v["nodes"].v
                  out == Get(merged, "nodes")
                  reach(n) == {i \in H : Len(arr(i)) >= n}
                  top(n) == CHOOSE i \in reach(n) : \A j \in reach(n) : j <= i
              IN  /\ isArray(out)
                  /\ \A i \in H : Len(out.v) >= Len(arr(i))
                  /\ \E i \in H : Len(out.v) = Len(arr(i))
                  /\ \A n \in 1..Len(out.v) :
                        LET e == arr(top(n))[n]
                        IN  IF isPlainObject(e)
                            THEN /\ isPlainObject(out.v[n])
                                 /\ \A key \in DOMAIN e.v : Get(out.v[n], key) = e.v[key]
                            ELSE out.v[n] = e
                  /\ Cardinality(H) = 2 =>
                        LET a == arr(CHOOSE i \in H : \E j \in H : i < j)
                            b == arr(CHOOSE j \in H : \E i \in H : i < j)
                        IN  \A n \in 1..Len(out.v) :
                               out.v[n] =
                                  IF n > Len(b) THEN a[n]
                                  ELSE IF n > Len(a) THEN b[n]
                                  ELSE IF isPlainObject(a[n]) /\ isPlainObject(b[n])
                                       THEN Obj(Spread(a[n].v, b[n].v))
                                       ELSE b[n]
        /\ Holding("x") # {} => Get(merged, "x") = layers[LastHolding("x")].v["x"]
        /\ (Holding("o") # {} /\ \A i \in Holding("o") : isPlainObject(layers[i].v["o"])) =>
              /\ isPlainObject(Get(merged, "o"))
              /\ DOMAIN Get(merged, "o").v = UNION {DOMAIN layers[i].v["o"].v : i \in Holding("o")}
              /\ \A key \in DOMAIN Get(merged, "o").v :
                    LET K == {i \in Holding("o") : key \in DOMAIN layers[i].v["o"].v}
                    IN  Get(merged, "o").v[key] =
                           layers[CHOOSE i \in K : \A j \in K : j <= i].v["o"].v[key]
C8_Witness ==
    /\ mpReturned /\ Len(layers) = 2
    /\ HoldingArray("nodes") = {1, 2}
    /\ Len(layers[2].v["nodes"].v) = 1 /\ Len(layers[1].v["nodes"].v) = 2
    /\ isPlainObject(layers[1].v["nodes"].v[1]) /\ isPlainObject(layers[2].v["nodes"].v[1])
    /\ layers[1].v["nodes"].v[1] # layers[2].v["nodes"].v[1]
    /\ Len(Get(merged, "nodes").v) = 2
    /\ Get(merged, "nodes").v[2] = layers[1].v["nodes"].v[2]

(***************************************************************************)
(* Claims about expandServicesRepeat (checked under SpecRepeat).           *)
(***************************************************************************)
tplReturned == expanded # Pending /\ expanded # Undefined
\* The number of copies the claim gives an entry: none for repeat 0, one when
\* repeat is absent, N for repeat N >= 1.
claimedCopies(service) ==
    IF "repeat" \notin DOMAIN service.v THEN 1 ELSE service.v["repeat"].v
RECURSIVE claimedTotal(_, _)
claimedTotal(services, n) ==
    IF n = 0 THEN 0 ELSE claimedTotal(services, n - 1) + claimedCopies(services[n])

\* C9: expandServicesRepeat returns the concatenation, in list order, of each
\* entry's copies: none for repeat 0, one for an absent repeat, N in index order
\* 0..N-1 for repeat N >= 1; copy c has the entry's fields but repeat, each expanded
\* with $index = c and the entry's own fields (over the outer context) in the context.
C9_RepeatExpansion ==
    (tplReturned /\ \A i \in 1..Len(tplServices) : isPlainObject(tplServices[i])) =>
        /\ Len(expanded.value) = claimedTotal(tplServices, Len(tplServices))
        /\ \A i \in 1..Len(tplServices) :
              \A c \in 0..(claimedCopies(tplServices[i]) - 1) :
                 LET service == tplServices[i].v
                     copy == expanded.value[claimedTotal(tplServices, i - 1) + c + 1]
                     ctx == Spread(Spread(tplContext, service), ("$index" :> Num(c)))
                 IN  /\ isPlainObject(copy)
                     /\ DOMAIN copy.v = (DOMAIN service) \ {"repeat"}
                     /\ \A f \in DOMAIN copy.v :
                           copy.v[f] = applyValueTemplate(ctx, service[f])
                     /\ ("name" \in DOMAIN service /\ service["name"] = IndexedName) =>
                           copy.v["name"] = Text("node-" \o ToString(c))
                     /\ "host" \in DOMAIN service =>
                           copy.v["host"] =
                              Text(tplContext["domain"].v[1].lit \o "-7900-" \o ToString(c))
C9_Witness ==
    /\ tplReturned /\ Len(tplServices) = 2
    /\ tplServices[1] = Obj([repeat |-> Num(0), name |-> IndexedName])
    /\ isPlainObject(tplServices[2]) /\ Get(tplServices[2], "repeat") = Num(2)
    /\ Get(tplServices[2], "name") = IndexedName /\ Has(tplServices[2], "host")
    /\ Len(expanded.value) = 2
    /\ expanded.value[2].v["name"] = Text("node-1")

(***************************************************************************)
(* Claims about createPresetData (checked under SpecPreset).               *)
(***************************************************************************)
cpReturned == cpResult # Pending /\ cpResult # Undefined /\ ~cpResult.threw
\* The layers the call merged: shared, network, assembly and the custom preset.
cpLayers ==
    LET file == loadCustomPreset(cpParams.root, cpParams.customPreset).value
    IN  <<loadSharedPreset(cpParams.root),
          loadNetworkPreset(cpParams.root, resolvePresetName(cpParams, file)).value,
          loadAssembly(cpParams.root, resolvePresetName(cpParams, file),
                       resolveAssemblyName(cpParams, file)).value,
          resolveCustomPreset(cpParams, file)>>

\* C10: in every preset createPresetData returns, nodes, databases, gateways,
\* explorers, wallets and faucets are arrays, empty when no layer defines them, and
\* no entry of any of them carries a repeat key.
C10_CollectionsExpanded ==
    cpReturned =>
        \A key \in {"nodes", "databases", "gateways", "explorers", "wallets", "faucets"} :
            /\ Has(cpResult.value, key)
            /\ isArray(cpResult.value.v[key])
            /\ (\A i \in 1..Len(cpLayers) : ~Has(cpLayers[i], key)) =>
                  cpResult.value.v[key] = Arr(<<>>)
            /\ \A i \in 1..Len(cpResult.value.v[key].v) :
                  LET entry == cpResult.value.v[key].v[i]
                  IN  isPlainObject(entry) => "repeat" \notin DOMAIN entry.v
C10_Witness ==
    /\ cpReturned
    /\ cpParams.oldPresetData # Undefined
    /\ Get(cpParams.customPresetObject, "nodes") = Arr(<<Obj([repeat |-> Num(2)])>>)
    /\ Get(cpResult.value, "assembly") = Text("multinode")
    /\ Len(cpResult.value.v["nodes"].v) = 3
    /\ Len(cpResult.value.v["wallets"].v) = 2
    /\ cpResult.value.v["faucets"] = Arr(<<>>)
    /\ cpResult.value.v["explorers"] = Arr(<<>>)

(***************************************************************************)
(* Claims about generateRandomConfiguration (checked under SpecConfig).    *)
(***************************************************************************)
cfgReturned == cfgResult # Pending /\ cfgResult # Undefined /\ ~cfgResult.threw
\* The run was a first run, and one that creates the nemesis with its mosaics.
freshNemesis ==
    /\ run = 1
    /\ shouldCreateNemesis(Root, cfgResult.input)
    /\ has(cfgResult.input.nemesis, "mosaics")
declaredAmounts(m) ==
    IF has(m, "currencyDistributions")
    THEN {m.currencyDistributions[i].amount : i \in 1..Len(m.currencyDistributions)}
    ELSE {}
nodesOf(preset) == IF has(preset, "nodes") THEN preset.nodes ELSE <<>>
declaredBalances(preset) ==
    UNION {{nodesOf(preset)[n].balances[b] : b \in 1..Len(nodesOf(preset)[n].balances)} :
           n \in {q \in 1..Len(nodesOf(preset)) : has(nodesOf(preset)[q], "balances")}}
\* Generated free accounts plus node main accounts without a balance for the mosaic.
dynamicRecipients(preset, mosaicIndex) ==
    LET m == preset.nemesis.mosaics[mosaicIndex + 1]
    IN  (IF has(m, "accountKeys") THEN Len(m.accountKeys)
         ELSE IF has(m, "accounts") /\ m.accounts # 0 THEN m.accounts ELSE 1)
        + Cardinality({n \in 1..Len(nodesOf(preset)) :
                          ~(/\ has(nodesOf(preset)[n], "balances")
                            /\ mosaicIndex + 1 <= Len(nodesOf(preset)[n].balances))})
amountsAdmitted(preset) ==
    /\ \A b \in declaredBalances(preset) : b >= 0
    /\ \A i \in 1..Len(preset.nemesis.mosaics) :
          /\ \A a \in declaredAmounts(preset.nemesis.mosaics[i]) : a >= 0
          /\ preset.nemesis.mosaics[i].supply >= dynamicRecipients(preset, i - 1)

\* C1: on a fresh nemesis creation, whenever every declared amount is >= 0 and every
\* mosaic's supply is at least its number of dynamic recipients, the distribution
\* completes without error and each mosaic's final currencyDistributions sum to its supply.
C1_DistributionConservesSupply ==
    (freshNemesis /\ amountsAdmitted(cfgResult.input)) =>
        /\ cfgResult.threw => cfgResult.error = "KnownError"
        /\ ~cfgResult.threw =>
              \A i \in 1..Len(resolvedPreset.nemesis.mosaics) :
                  LET m == resolvedPreset.nemesis.mosaics[i]
                  IN  sumAmounts(m.currencyDistributions) = m.supply

FreeAccountSlots ==
    {FreeAccountSlot(mosaicIndex, a) : mosaicIndex \in 0..(MaxMosaics - 1), a \in 0..(MaxAccounts - 1)}
sameField(a, b, field) ==
    /\ has(a, field) = has(b, field)
    /\ has(a, field) => a[field] = b[field]

\* C2: an upgrade of a locally created nemesis returns addresses.mosaics equal to
\* oldAddresses.mosaics, sets presetData.nemesis to oldPresetData.nemesis, and generates
\* no nemesis free account, whatever nemesis section the newly resolved preset has.
C2_UpgradeReusesNemesis ==
    (run = 2 /\ cfgReturned /\ shouldCreateNemesis(Root, cfgResult.input)) =>
        /\ sameField(cfgResult.value, storedAddresses, "mosaics")
        /\ sameField(resolvedPreset, storedPreset, "nemesis")
        /\ cfgResult.generated \cap FreeAccountSlots = {}
C2_Witness ==
    /\ run = 2 /\ cfgReturned /\ shouldCreateNemesis(Root, cfgResult.input)
    /\ cfgResult.input.nemesis = ChangedNemesis
    /\ storedPreset.nemesis.mosaics[1].supply # ChangedNemesis.mosaics[1].supply
    /\ has(storedAddresses, "mosaics")
    /\ Len(storedAddresses.mosaics[1].accounts) < MaxAccounts
    /\ cfgResult.value.mosaics = storedAddresses.mosaics
    /\ resolvedPreset.nemesis = storedPreset.nemesis

\* C3: resolving again with identical inputs, with the first run's outputs as oldAddresses
\* and oldPresetData, generates no new key and yields the same addresses and preset.
C3_UpgradeIdempotent ==
    (run = 2 /\ cfgResult.input = firstPreset) =>
        /\ ~cfgResult.threw
        /\ cfgResult.generated = {}
        /\ cfgResult.value = storedAddresses
        /\ resolvedPreset = storedPreset
C3_Witness ==
    /\ run = 2 /\ cfgResult.input = firstPreset /\ cfgReturned
    /\ has(storedAddresses, "nodes") /\ Len(storedAddresses.nodes) > 0
    /\ has(storedAddresses.nodes[1].main, "privateKey")
    /\ storedAddresses.nodes[1].main.privateKey.id > MaxKey
    /\ has(storedAddresses.nodes[1], "vrf")
    /\ has(storedAddresses, "nemesisSigner")
    /\ storedAddresses.nemesisSigner.privateKey.id > MaxKey
    /\ has(storedAddresses, "sinkAddress")
    /\ has(storedAddresses, "mosaics")
    /\ cfgResult.value = storedAddresses

(***************************************************************************)
(* Claims about ConfigService.run                                          *)
(***************************************************************************)
svcStarted == svcPc # "idle"

\* the one file of the two that the folder lacks, "" when it holds both or neither
missingFile(folder) ==
    IF folder[PresetFile] # 0 /\ folder[AddressesFile] = 0 THEN AddressesFile
    ELSE IF folder[PresetFile] = 0 /\ folder[AddressesFile] # 0 THEN PresetFile
    ELSE ""

\* C11: a run that finds exactly one of preset.yml and addresses.yml in the
\* target folder (and is not asked to reset the folder) fails, with or without
\* the upgrade flag, with a KnownError that names the missing file, writes
\* nothing and runs no generation step; a run proceeds to the generation only
\* when it found both files or neither.
C11_OneFileIsKnownError ==
    (svcStarted /\ ~svcParams.reset) =>
        /\ missingFile(svcBefore) # "" =>
              /\ svcPc = "failed"
              /\ svcResult.error = "KnownError"
              /\ svcResult.names = missingFile(svcBefore)
              /\ svcStep = 1
              /\ svcWritten = {}
              /\ target = svcBefore
        /\ svcPc \in {"running", "done"} => missingFile(svcBefore) = ""

\* the steps the current run has completed
completedSteps == {RunSequence[i] : i \in 1..(svcStep - 1)}

\* account generation, certificate generation, the rendering of nodes,
\* gateways, explorers and wallets, and the resolution of the nemesis
GenerationSteps ==
    {"generateRandomConfiguration", "generateNodeCertificates", "generateAgentCertificates",
     "generateNodes", "generateGateways", "generateExplorers", "generateWallets", "resolveNemesis"}

\* C12: in a run that regenerates the configuration, a file of the pair
\* addresses.yml / preset.yml is written only when account generation,
\* certificate generation, the rendering steps and nemesis resolution have
\* all completed, and a run in which one of those steps threw has written
\* neither file.
C12_WritesComeLast ==
    svcStarted =>
        /\ svcWritten # {} => GenerationSteps \subseteq completedSteps
        /\ \A file \in TargetFiles : target[file] = svcRun => GenerationSteps \subseteq completedSteps
        /\ (svcPc = "failed" /\ "at" \in DOMAIN svcResult /\ svcResult.at \in GenerationSteps) =>
              /\ svcWritten = {}
              /\ \A file \in TargetFiles : target[file] # svcRun

\* a run that regenerated the configuration and wrote both files
C12_Witness ==
    /\ svcPc = "done"
    /\ svcWritten = TargetFiles
    /\ GenerationSteps \subseteq completedSteps
    /\ \A file \in TargetFiles : target[file] = svcRun

\* the pair of files comes from one run, or both files are absent
samePair(folder) == folder[PresetFile] = folder[AddressesFile]

\* C13: after any run, returned or failed at any step, the persistence steps
\* included, a target folder that held a pair of one run (or neither file)
\* before the run holds both files of this run or both files of the earlier
\* run: never one file only, never the files of two different runs.
C13_PairReplacedAtomically ==
    (svcPc \in {"done", "failed", "returned"} /\ samePair(svcBefore)) => samePair(target)

\* the flag is set on the object
flag(object, field) == prop(object, field) = Bool(TRUE)

\* C14: for every node of every run that returns, the node's account has a main and
\* a transport account; it has a remote account exactly when the node harvests or
\* votes and remote accounts are in use on the node or on the preset; it has a vrf
\* account exactly when the node harvests; it has an agent account exactly when the
\* node is in the reward program.
C14_NodeAccountRoles ==
    (cfgReturned /\ has(cfgResult.input, "nodes")) =>
        /\ Len(cfgResult.value.nodes) = Len(cfgResult.input.nodes)
        /\ \A i \in 1..Len(cfgResult.input.nodes) :
              LET nodePreset == cfgResult.input.nodes[i]
                  nodeAccount == cfgResult.value.nodes[i]
              IN  /\ has(nodeAccount, "main")
                  /\ has(nodeAccount, "transport")
                  /\ has(nodeAccount, "remote") <=>
                        /\ flag(nodePreset, "harvesting") \/ flag(nodePreset, "voting")
                        /\ \/ flag(nodePreset, "nodeUseRemoteAccount")
                           \/ flag(cfgResult.input, "nodeUseRemoteAccount")
                  /\ has(nodeAccount, "vrf") <=> flag(nodePreset, "harvesting")
                  /\ has(nodeAccount, "agent") <=> flag(nodePreset, "rewardProgram")

\* an upgrade that returned a node without a remote account although the preset puts
\* remote accounts in use, next to a first run that gave a voting node a remote account
C14_Witness ==
    /\ run = 2 /\ cfgReturned /\ has(cfgResult.input, "nodes")
    /\ flag(cfgResult.input, "nodeUseRemoteAccount")
    /\ ~flag(cfgResult.input.nodes[1], "nodeUseRemoteAccount")
    /\ ~flag(cfgResult.input.nodes[1], "harvesting")
    /\ ~flag(cfgResult.input.nodes[1], "voting")
    /\ flag(cfgResult.input.nodes[1], "rewardProgram")
    /\ ~has(cfgResult.value.nodes[1], "remote")
    /\ has(cfgResult.value.nodes[1], "agent")
    /\ Len(cfgResult.input.nodes) = 2
    /\ has(cfgResult.value.nodes[2], "vrf")

\* the first value of the sequence that is given, undefined when none is
firstGiven(values) ==
    IF \E i \in 1..Len(values) : Truthy(values[i])
    THEN values[CHOOSE i \in 1..Len(values) :
                    Truthy(values[i]) /\ \A j \in 1..(i - 1) : ~Truthy(values[j])]
    ELSE Undefined

\* the custom preset file of the call, loaded
cpCustomFile == loadCustomPreset(cpParams.root, cpParams.customPreset)

\* the names the call is given, in the order of their precedence
cpPresetNames ==
    <<cpParams.preset, Get(cpParams.customPresetObject, "preset"),
      Get(cpCustomFile.value, "preset"), Get(cpParams.oldPresetData, "preset")>>
cpAssemblyNames ==
    <<cpParams.assembly, Get(cpParams.customPresetObject, "assembly"),
      Get(cpCustomFile.value, "assembly"), Get(cpParams.oldPresetData, "assembly"), Text("dual")>>

\* C15: createPresetData resolves the preset name as the first given of the explicit
\* parameter, the value the custom preset declares, the value of the previous preset,
\* and the assembly name likewise with 'dual' as the last default; the returned
\* preset's preset and assembly fields are these names, whatever the merged layers
\* declare; when no name of a preset is given the call throws a KnownError and
\* returns no preset.
C15_ResolvedNames ==
    (cpRun >= 1 /\ ~cpCustomFile.threw) =>
        /\ firstGiven(cpPresetNames) = Undefined =>
              cpResult.threw /\ cpResult.error = "KnownError"
        /\ ~cpResult.threw =>
              /\ Get(cpResult.value, "preset") = firstGiven(cpPresetNames)
              /\ Get(cpResult.value, "assembly") = firstGiven(cpAssemblyNames)

\* an upgrade given the assembly 'dual' and a custom preset that declares 'multinode',
\* on a target whose preset name comes from the previous preset
C15_Witness ==
    /\ cpRun >= 2 /\ cpReturned
    /\ cpParams.assembly = Text("dual")
    /\ Get(cpCustomFile.value, "assembly") = Text("multinode")
    /\ Get(cpLayers[4], "assembly") = Text("multinode")
    /\ Get(cpResult.value, "assembly") = Text("dual")
    /\ cpParams.preset = Undefined
    /\ Get(cpParams.oldPresetData, "preset") = Text("testnet")
    /\ Get(cpResult.value, "preset") = Text("testnet")

\* a first call that is given no preset name
C15_NoNameWitness ==
    /\ cpRun = 1 /\ firstGiven(cpPresetNames) = Undefined /\ ~cpCustomFile.threw
    /\ cpResult.threw

\* neither the custom preset file nor the custom preset object of the call has content
cpNoCustomContent ==
    /\ ~cpCustomFile.threw
    /\ isEmpty(mergePresets(<<cpCustomFile.value, cpParams.customPresetObject>>))

\* C16: an upgrade whose custom preset file and custom preset object supply no content
\* merges oldPresetData.customPresetCache as its custom layer and returns it unchanged
\* as customPresetCache; after any number of consecutive calls without arguments the
\* returned preset, its customPresetCache included, is the one returned by the last
\* call that was given arguments.
C16_CustomPresetCacheReused ==
    (cpRun >= 2 /\ cpReturned) =>
        /\ cpNoCustomContent =>
              /\ Has(cpParams.oldPresetData, "customPresetCache")
              /\ cpLayers[4] = Get(cpParams.oldPresetData, "customPresetCache")
              /\ Get(cpResult.value, "customPresetCache")
                    = Get(cpParams.oldPresetData, "customPresetCache")
        /\ noArguments(cpParams) =>
              /\ ~cpBase.threw
              /\ cpResult.value = cpBase.value
              /\ cpResult.value = cpParams.oldPresetData

\* a third resolution of a target, without arguments, where the last call with
\* arguments was given a custom preset with content
C16_Witness ==
    /\ cpRun = 3 /\ cpReturned /\ noArguments(cpParams)
    /\ cpParams.oldPresetData = cpBase.value
    /\ Has(Get(cpBase.value, "customPresetCache"), "wallets")
    /\ Get(cpResult.value, "customPresetCache") = Get(cpBase.value, "customPresetCache")
    /\ Has(cpResult.value, "wallets")

\* the mosaics a preset declares
mosaicsOf(preset) ==
    IF has(preset, "nemesis") /\ has(preset.nemesis, "mosaics") THEN preset.nemesis.mosaics ELSE <<>>

\* the mosaics (by position) for which the preset declares a negative amount, in a
\* currencyDistributions entry or in a node's balances
negativeMosaics(preset) ==
    {k \in 1..Len(mosaicsOf(preset)) :
        \/ \E a \in declaredAmounts(mosaicsOf(preset)[k]) : a < 0
        \/ \E n \in 1..Len(nodesOf(preset)) :
              /\ hasBalance(preset, k - 1, n)
              /\ preset.nodes[n].balances[k] < 0}

\* the declared distributions of the mosaic at position k: the currencyDistributions of
\* the preset, then one entry per node with a balance for the mosaic
declaredDistributions(preset, k, nodeAccounts) ==
    (IF has(mosaicsOf(preset)[k], "currencyDistributions")
     THEN mosaicsOf(preset)[k].currencyDistributions ELSE <<>>)
    \o nodeBalances(preset, nodeAccounts, k - 1, Len(nodeAccounts))

\* the message names the mosaic at position k and the address, the amount and the
\* index of the first negative entry of its declared distributions
namesFirstNegative(message, preset, k, nodeAccounts) ==
    /\ message.mosaic = mosaicsOf(preset)[k].name
    /\ message.index + 1 \in 1..Len(declaredDistributions(preset, k, nodeAccounts))
    /\ LET d == declaredDistributions(preset, k, nodeAccounts)[message.index + 1]
       IN  /\ d.amount < 0
           /\ message.amount = d.amount
           /\ message.address = d.address
    /\ \A j \in 1..message.index : declaredDistributions(preset, k, nodeAccounts)[j].amount >= 0

C17_DeclaredEntryWitness ==
    /\ freshNemesis /\ cfgResult.threw
    /\ "message" \in DOMAIN cfgResult
    /\ cfgResult.message = [mosaic |-> "currency", address |-> ExplicitAddress(1),
                            amount |-> -1, index |-> 0]

\* the draws that make an account of the returned Addresses: the nemesis signer, the
\* accounts of the nodes, the free accounts of the mosaics
AccountSlots ==
    {SignerSlot}
    \cup {NodeSlot(index, NodeRoles[r]) : index \in 0..(MaxNodes - 1), r \in 1..Len(NodeRoles)}
    \cup FreeAccountSlots

\* C18: under PROMPT_ALL a run that returns has generated no account of any role, the
\* free accounts of the nemesis mosaics included: every account of the returned
\* Addresses comes from the old addresses or from the preset.
C18_PromptAllGeneratesNothing ==
    (cfgReturned /\ cfgResult.input.privateKeySecurityMode = "PROMPT_ALL") =>
        cfgResult.generated \cap AccountSlots = {}

\* the position of the harvesting currency among the mosaics: the second when more than
\* one mosaic is defined, else the first
harvestingMosaic(mosaics) == IF Len(mosaics) > 1 THEN 2 ELSE 1

\* what the address receives in a final distribution
RECURSIVE received(_, _)
received(distribution, address) ==
    IF distribution = <<>> THEN 0
    ELSE (IF distribution[1].address = address THEN distribution[1].amount ELSE 0)
         + received(Tail(distribution), address)

\* C19: in the final distribution of the harvesting-currency mosaic of a fresh nemesis,
\* every node main account without an explicit balance for the mosaic receives at most
\* presetData.maxHarvesterBalance (the node main accounts of the other mosaics are under
\* no such bound).
C19_HarvesterBalanceCapped ==
    (freshNemesis /\ cfgReturned /\ has(cfgResult.value, "nodes")) =>
        \A n \in 1..Len(cfgResult.value.nodes) :
            LET h == harvestingMosaic(resolvedPreset.nemesis.mosaics)
            IN  ~hasBalance(cfgResult.input, h - 1, n) =>
                  received(resolvedPreset.nemesis.mosaics[h].currencyDistributions,
                           cfgResult.value.nodes[n].main.address)
                      <= cfgResult.input.maxHarvesterBalance

\* C20: in every mosaic of a fresh nemesis the entry the remainder correction overwrites,
\* the first of the final currencyDistributions, is the first generated free account of
\* the mosaic (not a declared distribution, not a node main account), and its amount is
\* the supply less the amounts of all the other entries.
C20_CorrectionOnFirstFreeAccount ==
    (freshNemesis /\ cfgReturned) =>
        \A i \in 1..Len(resolvedPreset.nemesis.mosaics) :
            LET m == resolvedPreset.nemesis.mosaics[i]
                free == cfgResult.value.mosaics[i].accounts
            IN  /\ Len(free) >= 1
                /\ m.currencyDistributions[1].address = free[1].address
                /\ m.currencyDistributions[1].amount
                      = m.supply - sumAmounts(Tail(m.currencyDistributions))

\* C21: whenever the distribution of the mosaics of a fresh nemesis completes, every
\* entry of every final currencyDistributions has an amount greater than 0, the first
\* entry, which the remainder correction rewrites, included; a recipient whose declared
\* amount is 0 is not in the list.
C21_AmountsPositive ==
    (freshNemesis /\ cfgReturned) =>
        \A i \in 1..Len(resolvedPreset.nemesis.mosaics) :
            LET final == resolvedPreset.nemesis.mosaics[i].currencyDistributions
                declared == cfgResult.input.nemesis.mosaics[i]
            IN  /\ \A e \in 1..Len(final) : final[e].amount > 0
                /\ has(declared, "currencyDistributions") =>
                      \A d \in 1..Len(declared.currencyDistributions) :
                          declared.currencyDistributions[d].amount = 0 =>
                              \A e \in 1..Len(final) :
                                  final[e].address # declared.currencyDistributions[d].address

\* a completed distribution whose preset declared an amount of 0, with the remainder
\* of the division given to the first entry
C21_Witness ==
    /\ freshNemesis /\ cfgReturned
    /\ 0 \in declaredAmounts(cfgResult.input.nemesis.mosaics[1])
    /\ Len(resolvedPreset.nemesis.mosaics[1].currencyDistributions) = 2
    /\ resolvedPreset.nemesis.mosaics[1].currencyDistributions[1].amount = 2
    /\ resolvedPreset.nemesis.mosaics[1].currencyDistributions[2].amount = 1

\* C22: applyValueTemplate applied to an array expands every element against the
\* context, the string elements included: for every string element of the array the
\* result holds the string with its placeholders substituted.
C22_StringElementsExpanded ==
    (expanded # Pending /\ expanded # Undefined) =>
        /\ applyValueTemplate(tplContext, Arr(tplServices)) = Arr(expanded.value)
        /\ \A i \in 1..Len(tplServices) :
              isString(tplServices[i]) =>
                  \E j \in 1..Len(expanded.value) :
                      expanded.value[j] = runTemplate(tplServices[i], tplContext)

(***************************************************************************)
(* Claims about the migration of addresses.yml (checked under SpecMigrate) *)
(***************************************************************************)
migrated == migRun >= 1 /\ has(migFrom, "nodes")

\* C23: after the key names migration every node entry has no signing, ssl or node
\* field; its main is the legacy signing account when there was one, else the account
\* of the legacy ssl private key when there was one; its transport is the account of
\* the legacy node private key whenever there was one.
C23_KeyNamesMigrated ==
    migrated =>
        /\ Len(migResult.value.nodes) = Len(migFrom.nodes)
        /\ \A i \in 1..Len(migFrom.nodes) :
              LET legacy == migFrom.nodes[i]
                  node == migResult.value.nodes[i]
              IN  /\ DOMAIN node \cap {"signing", "ssl", "node"} = {}
                  /\ has(legacy, "signing") => node.main = legacy.signing
                  /\ (~has(legacy, "signing") /\ has(legacy, "ssl")) =>
                        node.main = StoredAccount(legacy.ssl.privateKey.id)
                  /\ has(legacy, "node") =>
                        node.transport = StoredAccount(legacy.node.privateKey.id)

\* a legacy entry with a signing account, an ssl key and a node key, migrated
C23_Witness ==
    /\ migrated /\ Len(migFrom.nodes) = 2
    /\ DOMAIN migFrom.nodes[1] = {"signing", "ssl", "node"}
    /\ DOMAIN migFrom.nodes[2] = {"ssl"}
    /\ migResult.value.nodes[1].main = StoredAccount(1)
    /\ migResult.value.nodes[1].transport = StoredAccount(2)
    /\ migResult.value.nodes[2].main = StoredAccount(2)
    /\ DOMAIN migResult.value.nodes[1] = {"main", "transport"}

\* C24: the key names migration applied to a document whose nodes have main and
\* transport and no legacy field, its own output included, leaves the main and the
\* transport account of every node as they were.
C24_MigrationIdempotent ==
    (migrated /\ \A i \in 1..Len(migFrom.nodes) :
                    /\ DOMAIN migFrom.nodes[i] \cap {"signing", "ssl", "node"} = {}
                    /\ {"main", "transport"} \subseteq DOMAIN migFrom.nodes[i]) =>
        \A i \in 1..Len(migFrom.nodes) :
            /\ migResult.value.nodes[i].main = migFrom.nodes[i].main
            /\ migResult.value.nodes[i].transport = migFrom.nodes[i].transport

(***************************************************************************)
(* Claims about a run that keeps the stored configuration (SpecRun)        *)
(***************************************************************************)
\* the run found preset.yml and was asked neither to upgrade nor to reset
keptConfiguration ==
    svcStarted /\ svcBefore[PresetFile] # 0 /\ ~svcParams.upgrade /\ ~svcParams.reset

\* C25: a run that finds preset.yml in the target, with neither upgrade nor reset
\* asked for, returns the stored preset and the stored addresses, no account of them
\* generated anew, and writes neither preset.yml nor addresses.yml: the folder is as
\* it was, so that every such run returns the same.
C25_StoredConfigurationReturned ==
    keptConfiguration =>
        /\ svcPc = "returned"
        /\ svcResult.value.presetData = svcBefore[PresetFile]
        /\ svcResult.value.addresses = writtenAddresses(svcBefore[AddressesFile])
        /\ svcWritten = {}
        /\ target = svcBefore

(***************************************************************************)
(* Claims about VotingService.run (checked under SpecVoting)               *)
(***************************************************************************)
\* the last call created a voting key file
votCreated == votResult # Pending /\ ~votResult.threw /\ votResult.value

\* the network epoch the last call worked with
votNetworkEpoch ==
    IF votArgs.currentNetworkEpoch # 0 THEN votArgs.currentNetworkEpoch
    ELSE IF votPreset.lastKnownNetworkEpoch # 0 THEN votPreset.lastKnownNetworkEpoch ELSE 1

\* C26: a file that a run creates starts at the epoch after the greater of the end
\* epoch of the latest file there was and the network epoch - 1, and spans
\* votingKeyDesiredLifetime epochs; the files of the node never overlap; the new
\* file follows the latest file without a gap unless that file had expired.
C26_FilesFollowEachOther ==
    /\ \A i, j \in 1..Len(votFiles) : i < j => votFiles[i].endEpoch < votFiles[j].startEpoch
    /\ votCreated =>
          LET new == votFiles[Len(votFiles)]
          IN  /\ votFiles = Append(votBefore, new)
              /\ new.startEpoch = Max(lastEndEpoch(votBefore), votNetworkEpoch - 1) + 1
              /\ new.endEpoch - new.startEpoch + 1 = votPreset.votingKeyDesiredLifetime
              /\ (votBefore # <<>> /\ lastEndEpoch(votBefore) >= votNetworkEpoch) =>
                    new.startEpoch = lastEndEpoch(votBefore) + 1

\* a second file is created while the first has not expired, and a third after the
\* second had expired
C26_Witness ==
    /\ votCreated /\ Len(votFiles) = 3
    /\ votFiles[2].startEpoch = votFiles[1].endEpoch + 1
    /\ votFiles[3].startEpoch > votFiles[2].endEpoch + 1

\* C27: for a configuration that is accepted, the run that follows the creation of a
\* voting key file, at the same network epoch and with the same arguments, finds the
\* files up to date and creates no file.
C27_RenewalConverges ==
    [][(votCreated /\ votArgs' = votArgs) =>
          (votResult'.why = "up to date" /\ votFiles' = votFiles)]_vars

(***************************************************************************)
(* Claims about addVotingKeyLinkTransactions (checked under SpecLink)      *)
(***************************************************************************)
\* a voting key as the network knows it
votingKey(account) ==
    [publicKey |-> toUpperCase(account.publicKey), startEpoch |-> account.startEpoch,
     endEpoch |-> account.endEpoch]

\* the keys that are linked once the transactions are applied, in their order, to
\* the linked keys
RECURSIVE linkedAfter(_, _)
linkedAfter(linked, transactions) ==
    IF transactions = <<>> THEN linked
    ELSE linkedAfter(IF Head(transactions).action = "Unlink"
                     THEN linked \ {votingKey(Head(transactions).account)}
                     ELSE linked \cup {votingKey(Head(transactions).account)},
                     Tail(transactions))

lnkLinkedKeys ==
    {votingKey(lnkArgs.linkedVotingKeyAccounts[i]) : i \in 1..Len(lnkArgs.linkedVotingKeyAccounts)}

C29_LinkOnlyWithoutOverlap ==
    [][(/\ Len(lnkTransactions') > Len(lnkTransactions)
        /\ lnkTransactions'[Len(lnkTransactions')].action = "Link") =>
          \A k \in 1..(Len(lnkRemaining') - 1) :
              ~overlapsVotingAccounts(lnkTransactions'[Len(lnkTransactions')].account,
                                      lnkRemaining'[k])]_vars

(***************************************************************************)
(* Claims about LocalFileAccountStorage (checked under SpecStorage)        *)
(***************************************************************************)
\* C30: once getNodeAccount has returned an account for a node and a key name, every
\* later return for the same node and key name has the same private key, whatever
\* calls for other nodes, other key names, network accounts or voting key files come
\* in between; and when the call returns, the storage file holds the account.  A
\* call that has not returned yet returns the account the store holds.
C30_NodeAccountStable ==
    /\ \A i, j \in 1..Len(stoLog) :
          stoLog[i].name = stoLog[j].name => stoLog[i].privateKey = stoLog[j].privateKey
    /\ \A i \in 1..Len(stoLog) :
          /\ stoLog[i].saved # Undefined
          /\ stoLog[i].saved.privateKey = stoLog[i].privateKey
    /\ \A call \in stoPending : call.op = "getNodeAccount" =>
          /\ stoStorage.nodes[call.name[1]][call.name[2]] # Undefined
          /\ stoStorage.nodes[call.name[1]][call.name[2]].privateKey = call.account.privateKey

\* the account of a node is generated, a call for a network account comes in
\* between, and a second call for the same node and key name returns the same key
C30_Witness ==
    /\ Len(stoLog) = 2 /\ stoCount = 3
    /\ stoLog[1].name = <<nodeKeyOf(2), "Transport">> /\ stoLog[2].name = stoLog[1].name
    /\ stoLog[1].privateKey = Hex(MaxKey + 1, FALSE)
    /\ stoStorage.network["founder"] # Undefined
    /\ stoStorage.network["founder"].privateKey = Hex(MaxKey + 2, FALSE)
    /\ stoFile.nodes[nodeKeyOf(2)]["Transport"] # Undefined

=============================================================================
